---- MODULE Spec2Model ----
(***************************************************************************)
(* State-machine model of the sandbox execution service.                   *)
(*                                                                         *)
(* Two deployable variants of POST /execute are modelled:                  *)
(*   "service"  : routers/sandbox_router.py -> SandboxService.execute_code *)
(*   "monolith" : src/src/main.py execute_code -> SandboxExecutor          *)
(* One process serves one variant; its requests are coroutines on a single *)
(* asyncio event loop.  The docker client calls are blocking, so a request *)
(* gives up the loop only inside the aiohttp download of reference files.  *)
(***************************************************************************)
EXTENDS Integers, Sequences, FiniteSets, TLC

\* ---------------------------------------------------------------- bounds
MaxRefFiles == 2
\* removals (of a unit or of a staging directory) that fail in one run
MaxCleanupFaults == 1
\* entries below /data in an archive that is read back
MaxArchive == 3

\* ------------------------------------------------------ program constants
MinTimeout == 1
MaxTimeout == 300
\* exit_code of a result built from an exception (SandboxExecutor)
SentinelExit == -1
\* DOCKER_CLIENT_MAX_RETRIES when the environment does not set it
DOCKER_CLIENT_MAX_RETRIES == 3

\* Two requests, in arrival order, and the container names they can draw.
Reqs == {"r1", "r2"}
Names == {"n1", "n2"}
\* "no request" (an idle event loop) and "no name"
NoReq == "none"
NoName == "none"

\* ------------------------------------------------------------ input values
\* Optional[int]: None, or an integer.
NoneT == [isNone |-> TRUE, v |-> 0]
SomeT(n) == [isNone |-> FALSE, v |-> n]
Timeouts == {NoneT} \cup {SomeT(n) : n \in {0 - 1, 0, MinTimeout, MaxTimeout, MaxTimeout + 1}}

\* code: a string, as the sequence of its characters.
Codes == {<< >>, << " " >>, << "p" >>}

\* work_dir: an absolute path, as the sequence of its components.
WorkDirs == {<< "data" >>, << "etc" >>}

\* ref_files: a list of 0..MaxRefFiles descriptors; descriptor i is named i.
RefLists == {[i \in 1..n |-> i] : n \in 0..MaxRefFiles}

\* The requests submitted: a plain request, and that request with one field set
\* to each value of the field's set.
PlainRequest ==
    [code |-> << "p" >>, timeout |-> SomeT(MinTimeout), work_dir |-> << "data" >>, ref_files |-> << >>]
ExecuteRequest ==
    {[PlainRequest EXCEPT !.code = c] : c \in Codes}
        \cup {[PlainRequest EXCEPT !.timeout = t] : t \in Timeouts}
        \cup {[PlainRequest EXCEPT !.work_dir = w] : w \in WorkDirs}
        \cup {[PlainRequest EXCEPT !.ref_files = f] : f \in RefLists}

NullRequest == [code |-> << >>, timeout |-> NoneT, work_dir |-> << "data" >>, ref_files |-> << >>]

\* ---------------------------------------------------------- pure functions
\* Python truthiness of an Optional[int]: None and 0 are falsy.
Truthy(t) == ~t.isNone /\ t.v # 0

IsSpace(c) == c = " "

RECURSIVE LStrip(_)
LStrip(s) == IF s = << >> THEN << >> ELSE IF IsSpace(Head(s)) THEN LStrip(Tail(s)) ELSE s

RECURSIVE RStrip(_)
RStrip(s) ==
    IF s = << >> THEN << >>
    ELSE IF IsSpace(s[Len(s)]) THEN RStrip(SubSeq(s, 1, Len(s) - 1)) ELSE s

\* str.strip()
Strip(s) == RStrip(LStrip(s))

\* Bytes the unit can have written to stdout/stderr; "xff" is a byte that is not
\* valid UTF-8, so bytes.decode('utf-8') raises on it.
LogBytes == {<< "h" >>, << "w" >>, << "xff" >>}
DecodeOk(b) == \A i \in 1..Len(b) : b[i] # "xff"

\* Files are known by a number: 0 is the file the executed code may write into
\* its working directory, i >= 1 is the file staged for reference descriptor i.
\* The program that prints "w" is the one that writes file 0.
Wrote(b) == IF b = << "w" >> THEN {0} ELSE {}

Digit(i) == << "0", "1", "2", "3", "4", "5", "6", "7", "8", "9" >>[i + 1]

\* A file's name (a string, as the sequence of its characters) and bytes.
FileName(f) ==
    IF f = 0 THEN << "p", ".", "p", "n", "g" >>
    ELSE << "f", Digit(f) >> \o (IF f % 2 = 0 THEN << ".", "P", "N", "G" >> ELSE << ".", "c", "s", "v" >>)
FileBytes(f) == IF f = 0 THEN << 137, 80 >> ELSE << f >>

\* Optional[str]: None, or a string.
NoneS == [isNone |-> TRUE, v |-> << >>]
SomeS(s) == [isNone |-> FALSE, v |-> s]

\* str(ref_file.url) of a URL on host h with the given path after the first slash
Url(path) == << "h", "t", "t", "p", ":", "/", "/", "h", "/" >> \o path

\* Descriptors whose filename is not a plain name: 11 names a file in a
\* subdirectory, 12 one in the parent directory, 13 an absolute path; 14 has no
\* filename and a URL that ends in a file name; 15 has the empty filename and a
\* URL that ends in a slash after a directory; 16 has no filename and the URL of
\* the host alone.
RichFiles == 11..16

\* RefFile: descriptor i, its optional filename and its url.
RefFile(i) ==
    CASE i = 11 -> [filename |-> SomeS(<< "s", "/", "g", ".", "p", "n", "g" >>), url |-> Url(<< "x" >>)]
      [] i = 12 -> [filename |-> SomeS(<< ".", ".", "/", "e", ".", "p", "n", "g" >>), url |-> Url(<< "x" >>)]
      [] i = 13 -> [filename |-> SomeS(<< "/", "e", ".", "p", "n", "g" >>), url |-> Url(<< "x" >>)]
      [] i = 14 -> [filename |-> NoneS, url |-> Url(<< "u", ".", "p", "n", "g" >>)]
      [] i = 15 -> [filename |-> SomeS(<< >>), url |-> Url(<< "d", "/" >>)]
      [] i = 16 -> [filename |-> NoneS, url |-> Url(<< >>)]
      [] OTHER -> [filename |-> SomeS(FileName(i)), url |-> Url(<< "x" >>)]

\* The components of a path: what stands between its slashes.
RECURSIVE Split(_)
Split(s) ==
    IF s = << >> THEN << << >> >>
    ELSE LET rest == Split(Tail(s))
         IN  IF Head(s) = "/" THEN << << >> >> \o rest
             ELSE << << Head(s) >> \o rest[1] >> \o Tail(rest)

\* pathlib: the parts of a path below its root; empty components and "." are
\* dropped, so a trailing slash leaves no part behind.
IsPart(c) == c # << >> /\ c # << "." >>
Parts(s) == SelectSeq(Split(s), IsPart)

\* Path(s).name: the last part, or the empty string when there is none.
PathName(s) == IF Parts(s) = << >> THEN << >> ELSE Parts(s)[Len(Parts(s))]

\* f"file_{uuid.uuid4().hex[:8]}", the draw written "?"
RandomName == << "f", "i", "l", "e", "_", "?" >>

\* download_ref_files: ref_file.filename if it is truthy, else
\* Path(str(ref_file.url)).name or the random name
Filename(d) ==
    IF ~d.filename.isNone /\ d.filename.v # << >> THEN d.filename.v
    ELSE IF PathName(d.url) # << >> THEN PathName(d.url)
    ELSE RandomName

\* Where a path of the given parts leads from the staging directory: ".." goes
\* up, out of the directory when it is met at its top.
RECURSIVE Walk(_, _)
Walk(parts, stack) ==
    IF parts = << >> THEN [inside |-> TRUE, path |-> stack]
    ELSE IF Head(parts) = << ".", "." >>
         THEN IF stack = << >> THEN [inside |-> FALSE, path |-> << >>]
              ELSE Walk(Tail(parts), SubSeq(stack, 1, Len(stack) - 1))
         ELSE Walk(Tail(parts), Append(stack, Head(parts)))

\* target_path = work_dir / filename: an absolute filename replaces work_dir.
TargetPath(name) ==
    IF name # << >> /\ name[1] = "/" THEN [inside |-> FALSE, path |-> << >>]
    ELSE Walk(Parts(name), << >>)

\* The place of file f below the staging directory (file 0 is written at its top).
RelPath(f) == IF f = 0 THEN << FileName(0) >> ELSE TargetPath(Filename(RefFile(f))).path
Inside(f) == f = 0 \/ TargetPath(Filename(RefFile(f))).inside

\* os.path.isfile(os.path.join(host_work_dir, entry)) for the entries of
\* os.listdir: the files at the top of the directory.
TopLevel(f) == Len(RelPath(f)) = 1

RECURSIVE JoinPath(_)
JoinPath(parts) ==
    IF parts = << >> THEN << >>
    ELSE IF Len(parts) = 1 THEN parts[1]
    ELSE parts[1] \o << "/" >> \o JoinPath(Tail(parts))

\* A member of the tar archive docker returns for '/data': the directory itself,
\* and a regular file below it.
DirMember(path) == [name |-> path, isfile |-> FALSE, bytes |-> << >>]
FileMember(f) == [name |-> << "d", "/" >> \o JoinPath(RelPath(f)), isfile |-> TRUE, bytes |-> FileBytes(f)]

\* str.lower()
UpperCase == << "A", "B", "C", "D", "E", "F", "G", "H", "I", "J", "K", "L", "M",
               "N", "O", "P", "Q", "R", "S", "T", "U", "V", "W", "X", "Y", "Z" >>
LowerCase == << "a", "b", "c", "d", "e", "f", "g", "h", "i", "j", "k", "l", "m",
               "n", "o", "p", "q", "r", "s", "t", "u", "v", "w", "x", "y", "z" >>
LowerChar(c) ==
    IF \E i \in 1..26 : UpperCase[i] = c
    THEN LowerCase[CHOOSE i \in 1..26 : UpperCase[i] = c]
    ELSE c
Lower(s) == [i \in 1..Len(s) |-> LowerChar(s[i])]

\* str.endswith
EndsWith(s, e) == Len(s) >= Len(e) /\ SubSeq(s, Len(s) - Len(e) + 1, Len(s)) = e

\* os.path.basename: what follows the last "/"
RECURSIVE Basename(_)
Basename(path) ==
    IF \E i \in 1..Len(path) : path[i] = "/"
    THEN Basename(Tail(path))
    ELSE path

image_extensions ==
    {<< ".", "p", "n", "g" >>, << ".", "j", "p", "g" >>, << ".", "j", "p", "e", "g" >>,
     << ".", "g", "i", "f" >>, << ".", "b", "m", "p" >>, << ".", "s", "v", "g" >>}

\* any(filename.lower().endswith(ext) for ext in image_extensions)
IsImageName(filename) == \E ext \in image_extensions : EndsWith(Lower(filename), ext)

\* base64.b64encode: three bytes make four characters of the alphabet, a last
\* group of one or two bytes is padded with "="
B64Alphabet ==
    UpperCase \o LowerCase \o << "0", "1", "2", "3", "4", "5", "6", "7", "8", "9", "+", "/" >>
B64Char(v) == B64Alphabet[v + 1]
B64Value(c) == (CHOOSE i \in 1..64 : B64Alphabet[i] = c) - 1

RECURSIVE B64Encode(_)
B64Encode(b) ==
    IF Len(b) = 0 THEN << >>
    ELSE IF Len(b) = 1 THEN
        << B64Char(b[1] \div 4), B64Char((b[1] % 4) * 16), "=", "=" >>
    ELSE IF Len(b) = 2 THEN
        << B64Char(b[1] \div 4), B64Char((b[1] % 4) * 16 + b[2] \div 16),
           B64Char((b[2] % 16) * 4), "=" >>
    ELSE
        << B64Char(b[1] \div 4), B64Char((b[1] % 4) * 16 + b[2] \div 16),
           B64Char((b[2] % 16) * 4 + b[3] \div 64), B64Char(b[3] % 64) >>
            \o B64Encode(SubSeq(b, 4, Len(b)))

\* base64.b64decode, as the client of the API applies it to `content`
RECURSIVE B64Decode(_)
B64Decode(t) ==
    IF Len(t) < 4 THEN << >>
    ELSE LET b1 == B64Value(t[1]) * 4 + B64Value(t[2]) \div 16
         IN  IF t[3] = "=" THEN << b1 >>
             ELSE LET b2 == (B64Value(t[2]) % 16) * 16 + B64Value(t[3]) \div 4
                  IN  IF t[4] = "=" THEN << b1, b2 >>
                      ELSE << b1, b2, (B64Value(t[3]) % 4) * 64 + B64Value(t[4]) >>
                               \o B64Decode(SubSeq(t, 5, Len(t)))

\* Variant of ImageFile whose size is the length of the encoded text.
ImageFile_EncodedSize(member) ==
    [filename |-> Basename(member.name),
     content |-> B64Encode(member.bytes),
     size |-> Len(B64Encode(member.bytes))]

\* ImageFile(filename=filename, content=base64_content, size=len(file_content))
ImageFile(member) ==
    [filename |-> Basename(member.name),
     content |-> B64Encode(member.bytes),
     size |-> Len(member.bytes)]

\* Variant of ExtractImages that takes every member whose name contains a dot.
ExtractImages_AnyDotted(tar) ==
    {ImageFile(member) : member \in {m \in tar : \E i \in 1..Len(m.name) : m.name[i] = "."}}

\* Variant of ExtractImages that takes only the image the executed code wrote.
ExtractImages_OnlyWritten(tar) ==
    {ImageFile(member) :
        member \in {m \in tar : m.isfile /\ IsImageName(Basename(m.name)) /\ m.bytes = FileBytes(0)}}

\* The loop over tar.getmembers(): regular files with an image name
ExtractImages(tar) ==
    {ImageFile(member) : member \in {m \in tar : m.isfile /\ IsImageName(Basename(m.name))}}

ExitCodes == {0, 1}
NonZeroExit == ExitCodes \ {0}

\* ------------------------------------------------------------------ state
VARIABLES
    boot,       \* how the process came up: client initialization, image check, /health
    deployed,   \* which variant this process serves
    client,     \* docker client connected at construction
    loop,       \* request whose coroutine holds the event loop (NoReq: idle loop)
    req,        \* req[r]: the ExecuteRequest of request r
    pc,         \* pc[r]: position of request r's coroutine
    loc,        \* loc[r]: locals of execute_code
    resp,       \* resp[r]: what the request returns or raises
    units,      \* the runtime's containers, by name
    fs,         \* the host's staging directories
    hist        \* hist[r]: record of what happened to request r (observation only)

vars == << boot, deployed, client, loop, req, pc, loc, resp, units, fs, hist >>

\* config.get_container_config() with the values of an unset environment
get_container_config ==
    [mem_limit |-> "128m", cpu_quota |-> 50000, user |-> "sandbox", network_disabled |-> TRUE,
     security_opt |-> << "no-new-privileges" >>]
NoProfile ==
    [mem_limit |-> "", cpu_quota |-> 0, user |-> "", network_disabled |-> FALSE, security_opt |-> << >>]

NoUnit ==
    [exists |-> FALSE, owner |-> NoReq, bind |-> << >>, running |-> FALSE, log |-> << >>, data |-> {},
     command |-> << >>, profile |-> NoProfile]
NoDir == [exists |-> FALSE, files |-> {}]

NoResp == [kind |-> "none", status |-> 0, success |-> FALSE, exit_code |-> 0, output |-> << >>,
           generated_images |-> {}]
\* raise HTTPException(status_code=s)
HttpError(s) == [NoResp EXCEPT !.kind = "error", !.status = s]
\* return ExecuteResponse(...) / the result dict, answered with 200
Result(ok, code, out) ==
    [kind |-> "result", status |-> 200, success |-> ok, exit_code |-> code, output |-> out,
     generated_images |-> {}]

\* locals of execute_code: container_name, host_work_dir / temp_work_dir set,
\* index of the next reference file, `container` bound; in the copy-in the files
\* of tar_buffer, the path given to put_archive and whether an exception was
\* caught; the path given to get_archive; exit_code, generated_images
InitLoc == [name |-> NoName, hwd |-> FALSE, idx |-> 1, handle |-> FALSE,
            tar |-> {}, copiedTo |-> << >>, copyFailed |-> FALSE, readFrom |-> << >>,
            exit_code |-> 0, generated_images |-> {}]
InitHist == [created |-> FALSE, createFailed |-> FALSE, dir |-> FALSE, dlFailed |-> FALSE, escaped |-> {},
             wait |-> "none", status |-> 0, flushed |-> << >>, extract |-> "none", logsFailed |-> FALSE,
             rmUnitFailed |-> FALSE, rmDirFailed |-> FALSE, cleanups |-> 0,
             snap0 |-> << NoUnit, NoDir, NoResp >>, snap1 |-> << NoUnit, NoDir >>]

\* What /health last answered, with what the runtime would have answered then.
NoHealth == [status |-> "none", code |-> 0, ping |-> FALSE, image |-> "none"]

\* The process before docker.from_env is first tried, max_retries being the
\* configured DOCKER_CLIENT_MAX_RETRIES.
Booting(m) ==
    [phase |-> "connect", max_retries |-> m, attempt |-> 0, attempts |-> 0, failures |-> 0,
     sleeps |-> 0, succeeded |-> FALSE, lookup |-> "none", builds |-> 0, executor |-> FALSE,
     health |-> NoHealth]

\* The process serving requests: with a client after a first attempt that
\* succeeded and an image that was there, or without one after every attempt
\* failed.
Booted(variant, c) ==
    IF c
    THEN [Booting(DOCKER_CLIENT_MAX_RETRIES) EXCEPT !.phase = "up", !.attempts = 1, !.succeeded = TRUE,
                                                   !.lookup = "found", !.executor = TRUE]
    ELSE [Booting(DOCKER_CLIENT_MAX_RETRIES) EXCEPT !.phase = "up",
                                                   !.attempt = DOCKER_CLIENT_MAX_RETRIES,
                                                   !.attempts = DOCKER_CLIENT_MAX_RETRIES,
                                                   !.failures = DOCKER_CLIENT_MAX_RETRIES,
                                                   !.sleeps = DOCKER_CLIENT_MAX_RETRIES - 1,
                                                   !.executor = (variant = "service")]

Init ==
    /\ deployed \in {"service", "monolith"}
    /\ client \in BOOLEAN
    /\ boot = Booted(deployed, client)
    /\ loop = NoReq
    /\ req = [r \in Reqs |-> NullRequest]
    /\ pc = [r \in Reqs |-> "idle"]
    /\ loc = [r \in Reqs |-> InitLoc]
    /\ resp = [r \in Reqs |-> NoResp]
    /\ units = [n \in Names |-> NoUnit]
    /\ fs = [r \in Reqs |-> NoDir]
    /\ hist = [r \in Reqs |-> InitHist]

\* A removal may fail while fewer than MaxCleanupFaults recorded ones have.
CleanupFaults ==
    Cardinality({r \in Reqs : hist[r].rmUnitFailed}) + Cardinality({r \in Reqs : hist[r].rmDirFailed})
MayFail == CleanupFaults < MaxCleanupFaults

\* ------------------------------------------------ routers/sandbox_router.py
\* The two validations of the router's execute_code, in order.
RouterRejects(q) ==
    \/ Strip(q.code) = << >>
    \/ Truthy(q.timeout) /\ (q.timeout.v < MinTimeout \/ q.timeout.v > MaxTimeout)

\* A new request is picked up by an idle loop of the process that has started;
\* requests are numbered in arrival order.
Arrives(r, variant) ==
    /\ deployed = variant
    /\ boot.phase = "up"
    /\ pc[r] = "idle"
    /\ loop = NoReq
    /\ r = "r1" \/ pc["r1"] # "idle"

\* uuid.uuid4().hex[:8]: any name.  Names are interchangeable, so the first name
\* drawn is taken to be "n1"; a later draw is that name again or another one.
Uuid == {"n1"} \cup {n \in Names : \E s \in Reqs : loc[s].name = "n1"}

\* Request r ends at once with response x, having touched nothing.
EndsAtOnce(r, q, x) ==
    /\ req' = [req EXCEPT ![r] = q]
    /\ resp' = [resp EXCEPT ![r] = x]
    /\ pc' = [pc EXCEPT ![r] = "done"]
    /\ UNCHANGED << boot, deployed, client, loop, loc, units, fs, hist >>

\* router: empty code or timeout out of range -> HTTPException(400), re-raised
SvcReject(r) ==
    /\ Arrives(r, "service")
    /\ \E q \in ExecuteRequest :
        /\ RouterRejects(q)
        /\ EndsAtOnce(r, q, HttpError(400))

\* Variant of SvcUnavailable in which the request first tries the connection
\* once more.
SvcUnavailable_Reconnects(r) ==
    /\ Arrives(r, "service")
    /\ ~client
    /\ \E q \in ExecuteRequest :
        /\ ~RouterRejects(q)
        /\ req' = [req EXCEPT ![r] = q]
        /\ resp' = [resp EXCEPT ![r] = HttpError(503)]
        /\ pc' = [pc EXCEPT ![r] = "done"]
        /\ boot' = [boot EXCEPT !.attempts = @ + 1, !.failures = @ + 1]
        /\ UNCHANGED << deployed, client, loop, loc, units, fs, hist >>

\* service: docker_service.is_available() is false -> HTTPException(503)
SvcUnavailable(r) ==
    /\ Arrives(r, "service")
    /\ ~client
    /\ \E q \in ExecuteRequest :
        /\ ~RouterRejects(q)
        /\ EndsAtOnce(r, q, HttpError(503))

\* service: timeout is None -> config.DEFAULT_TIMEOUT, which Config does not define:
\* AttributeError before the try block, turned into 500 by the router's except Exception
SvcNoDefault(r) ==
    /\ Arrives(r, "service")
    /\ client
    /\ \E q \in ExecuteRequest :
        /\ ~RouterRejects(q)
        /\ q.timeout.isNone
        /\ EndsAtOnce(r, q, HttpError(500))

\* Variant of ExceptException that raises past the finally block.
ExceptException_NoFinally(r) ==
    /\ resp' = [resp EXCEPT ![r] = HttpError(500)]
    /\ pc' = [pc EXCEPT ![r] = "done"]
    /\ loop' = NoReq

\* Variant of ExceptException that answers with a failed result instead of
\* raising (what SandboxExecutor does).
ExceptException_AsResult(r) ==
    /\ resp' = [resp EXCEPT ![r] = Result(FALSE, SentinelExit, << "Execution error" >>)]
    /\ pc' = [pc EXCEPT ![r] = "cleanup_unit"]
    /\ loop' = r

\* except Exception as e: raise HTTPException(status_code=500); then the finally block
ExceptException(r) ==
    /\ resp' = [resp EXCEPT ![r] = HttpError(500)]
    /\ pc' = [pc EXCEPT ![r] = "cleanup_unit"]
    /\ loop' = r

\* service: container name drawn, tempfile.mkdtemp succeeds
SvcEnter(r) ==
    /\ Arrives(r, "service")
    /\ client
    /\ \E q \in ExecuteRequest, n \in Uuid :
        /\ ~RouterRejects(q)
        /\ ~q.timeout.isNone
        /\ req' = [req EXCEPT ![r] = q]
        /\ loc' = [loc EXCEPT ![r].name = n, ![r].hwd = TRUE]
        /\ fs' = [fs EXCEPT ![r] = [exists |-> TRUE, files |-> {}]]
        /\ hist' = [hist EXCEPT ![r].dir = TRUE]
        /\ IF q.ref_files # << >>
           THEN pc' = [pc EXCEPT ![r] = "download"] /\ loop' = NoReq
           ELSE pc' = [pc EXCEPT ![r] = "create"] /\ loop' = r
    /\ UNCHANGED << boot, deployed, client, resp, units >>

\* service: tempfile.mkdtemp raises; host_work_dir stays None
SvcMkdtempFails(r) ==
    /\ Arrives(r, "service")
    /\ client
    /\ \E q \in ExecuteRequest, n \in Uuid :
        /\ ~RouterRejects(q)
        /\ ~q.timeout.isNone
        /\ req' = [req EXCEPT ![r] = q]
        /\ loc' = [loc EXCEPT ![r].name = n]
    /\ ExceptException(r)
    /\ UNCHANGED << boot, deployed, client, units, fs, hist >>

\* --------------------------------------------------- services/file_service.py
\* FileService.download_ref_files, one iteration of its loop: the coroutine waits
\* for the response (other requests may run meanwhile) and then handles it.
\* Staged filenames are the descriptors' names.

\* Variant of Staged in which every request stages into one shared directory.
Staged_Shared(r) ==
    [fs EXCEPT !["r1"].files = @ \cup {req[r].ref_files[loc[r].idx]}]

\* Variant of Staged that takes the descriptors from the end of the list.
Staged_Reversed(r) ==
    [fs EXCEPT ![r].files = @ \cup {req[r].ref_files[Len(req[r].ref_files) + 1 - loc[r].idx]}]

\* status 200 and every chunk written: the file is staged, in the staging
\* directory when target_path lies in it
Staged(r) ==
    [fs EXCEPT ![r].files = @ \cup {f \in {req[r].ref_files[loc[r].idx]} : Inside(f)}]

\* The files the request has written outside its staging directory, the one at
\* target_path now among them if it lies outside.
Escaped(r) == hist[r].escaped \cup {f \in {req[r].ref_files[loc[r].idx]} : ~Inside(f)}

\* After the last descriptor the coroutine goes on without yielding.
SvcDownloadOk(r) ==
    /\ deployed = "service"
    /\ pc[r] = "download"
    /\ loop = NoReq
    /\ fs' = Staged(r)
    /\ hist' = [hist EXCEPT ![r].escaped = Escaped(r)]
    /\ loc' = [loc EXCEPT ![r].idx = @ + 1]
    /\ IF loc[r].idx = Len(req[r].ref_files)
       THEN pc' = [pc EXCEPT ![r] = "create"] /\ loop' = r
       ELSE UNCHANGED << pc, loop >>
    /\ UNCHANGED << boot, deployed, client, req, resp, units >>

\* Variant of SvcDownloadFails in which the failed download is only logged and
\* the request goes on to create the unit.
SvcDownloadFails_Swallowed(r) ==
    /\ deployed = "service"
    /\ pc[r] = "download"
    /\ loop = NoReq
    /\ hist' = [hist EXCEPT ![r].dlFailed = TRUE]
    /\ pc' = [pc EXCEPT ![r] = "create"]
    /\ loop' = r
    /\ UNCHANGED << boot, deployed, client, req, loc, resp, units, fs >>

\* Non-200 status, network error or write error on the current descriptor:
\* HTTPException(400) leaves download_ref_files.  A write error may leave the
\* partly written file behind.  SandboxService.execute_code catches the
\* HTTPException in its except Exception and raises HTTPException(500) instead.
SvcDownloadFails(r) ==
    /\ deployed = "service"
    /\ pc[r] = "download"
    /\ loop = NoReq
    /\ \E partial \in BOOLEAN :
        /\ fs' = IF partial THEN Staged(r) ELSE fs
        /\ hist' = [hist EXCEPT ![r].dlFailed = TRUE,
                                ![r].escaped = IF partial THEN Escaped(r) ELSE @]
    /\ ExceptException(r)
    /\ UNCHANGED << boot, deployed, client, req, loc, units >>

\* ------------------------------------------------ services/sandbox_service.py
\* Variant of NewUnit in which a work_dir outside /data gets the unit a network.
NewUnit_CallerProfile(r, isRunning) ==
    [exists |-> TRUE, owner |-> r, bind |-> req[r].work_dir, running |-> isRunning, log |-> << >>,
     data |-> {}, command |-> << << "python" >>, << "-c" >>, req[r].code >>,
     profile |-> [get_container_config EXCEPT !.network_disabled = (req[r].work_dir = << "data" >>)]]

\* The unit docker registers for request r under its container name.
NewUnit(r, isRunning) ==
    [exists |-> TRUE, owner |-> r, bind |-> req[r].work_dir, running |-> isRunning, log |-> << >>,
     data |-> {}, command |-> << << "python" >>, << "-c" >>, req[r].code >>,
     profile |-> get_container_config]

\* Where the unit's /data is: the staging directory of the request when work_dir
\* is /data (the volume), the container's own directory otherwise.
MountedAtData(n) == units[n].bind = << "data" >>

\* The volume is mounted on a directory below /data.
MountedUnderData(n) == Len(units[n].bind) > 1 /\ units[n].bind[1] = "data"

\* File f of the staging directory as /data shows it through a volume mounted
\* on a directory o below it.
MountMember(f) ==
    [name |-> << "d", "/", "o", "/" >> \o JoinPath(RelPath(f)), isfile |-> TRUE, bytes |-> FileBytes(f)]

\* container.get_archive('/data'): the directory and the files in it and below
\* it, those of a volume mounted at or below /data among them
ArchiveOf(n) ==
    {DirMember(<< "d" >>)}
        \cup (IF MountedAtData(n) THEN {FileMember(f) : f \in fs[units[n].owner].files}
              ELSE units[n].data
                     \cup (IF MountedUnderData(n)
                           THEN {MountMember(f) : f \in fs[units[n].owner].files}
                           ELSE {}))

\* Variant of AfterCreate that goes to the extraction without the wait.
AfterCreate_SkipsWait(r) == "extract"

AfterCreate(r) == IF req[r].ref_files # << >> /\ loc[r].hwd THEN "copyin" ELSE "wait"

\* Variant of SvcCreate in which the call is awaited off the event loop: the
\* coroutine gives up the loop with its unit created.
SvcCreate_Yields(r) ==
    /\ deployed = "service"
    /\ pc[r] = "create"
    /\ loop = r
    /\ ~units[loc[r].name].exists
    /\ units' = [units EXCEPT ![loc[r].name] = NewUnit(r, TRUE)]
    /\ loc' = [loc EXCEPT ![r].handle = TRUE]
    /\ hist' = [hist EXCEPT ![r].created = TRUE]
    /\ pc' = [pc EXCEPT ![r] = AfterCreate(r)]
    /\ loop' = NoReq
    /\ UNCHANGED << boot, deployed, client, req, resp, fs >>

\* docker_client.containers.run(**container_args) returns the container
SvcCreate(r) ==
    /\ deployed = "service"
    /\ pc[r] = "create"
    /\ loop = r
    /\ ~units[loc[r].name].exists
    /\ units' = [units EXCEPT ![loc[r].name] = NewUnit(r, TRUE)]
    /\ loc' = [loc EXCEPT ![r].handle = TRUE]
    /\ hist' = [hist EXCEPT ![r].created = TRUE]
    /\ pc' = [pc EXCEPT ![r] = AfterCreate(r)]
    /\ UNCHANGED << boot, deployed, client, loop, req, resp, fs >>

\* containers.run raises: the name is taken (409), the create call fails, or the
\* container is created under the name but cannot be started
SvcCreateFails(r) ==
    /\ deployed = "service"
    /\ pc[r] = "create"
    /\ loop = r
    /\ \/ UNCHANGED units /\ hist' = [hist EXCEPT ![r].createFailed = TRUE]
       \/ /\ ~units[loc[r].name].exists
          /\ units' = [units EXCEPT ![loc[r].name] = NewUnit(r, FALSE)]
          /\ hist' = [hist EXCEPT ![r].created = TRUE, ![r].createFailed = TRUE]
    /\ ExceptException(r)
    /\ UNCHANGED << boot, deployed, client, req, loc, fs >>

\* containers.run raises docker.errors.ContainerError (docker raises it with a
\* non-zero exit_status): except ContainerError returns a result, then finally
SvcContainerError(r) ==
    /\ deployed = "service"
    /\ pc[r] = "create"
    /\ loop = r
    /\ ~units[loc[r].name].exists
    /\ \E status \in NonZeroExit :
        resp' = [resp EXCEPT ![r] = Result(FALSE, status, << "ContainerError" >>)]
    /\ units' = [units EXCEPT ![loc[r].name] = NewUnit(r, FALSE)]
    /\ hist' = [hist EXCEPT ![r].created = TRUE]
    /\ pc' = [pc EXCEPT ![r] = "cleanup_unit"]
    /\ UNCHANGED << boot, deployed, client, loop, req, loc, fs >>

\* Variant of SvcCopyIn in which the copy is awaited: the coroutine gives up the
\* event loop while its unit exists.
SvcCopyIn_Awaits(r) ==
    /\ deployed = "service"
    /\ pc[r] = "copyin"
    /\ loop = r
    /\ pc' = [pc EXCEPT ![r] = "wait"]
    /\ loop' = NoReq
    /\ UNCHANGED << boot, deployed, client, req, loc, resp, units, fs, hist >>

\* tar.add for the entries of os.listdir(host_work_dir) that are files
TarBuffer(r) == {f \in fs[r].files : TopLevel(f)}

\* container.put_archive('/data', ...) and container.get_archive('/data'): the
\* directory of the unit the archive is put into and the one read back
PutArchivePath == << "data" >>
GetArchivePath == << "data" >>

\* Variant of SvcCopyInFails in which the failure leaves the helper and fails
\* the request.
SvcCopyInFails_Raises(r) ==
    /\ deployed = "service"
    /\ pc[r] = "copyin"
    /\ loop = r
    /\ loc' = [loc EXCEPT ![r].tar = TarBuffer(r), ![r].copiedTo = PutArchivePath,
                          ![r].copyFailed = TRUE]
    /\ ExceptException(r)
    /\ UNCHANGED << boot, deployed, client, req, units, fs, hist >>

\* _copy_files_to_container: the files at the top of the staging directory are
\* put into the unit's /data, which is the staging directory itself when the
\* volume is mounted there; chown and chmod follow
SvcCopyIn(r) ==
    /\ deployed = "service"
    /\ pc[r] = "copyin"
    /\ loop = r
    /\ loc' = [loc EXCEPT ![r].tar = TarBuffer(r), ![r].copiedTo = PutArchivePath]
    /\ units' = IF MountedAtData(loc[r].name) THEN units
                ELSE [units EXCEPT ![loc[r].name].data = @ \cup {FileMember(f) : f \in TarBuffer(r)}]
    /\ pc' = [pc EXCEPT ![r] = "wait"]
    /\ UNCHANGED << boot, deployed, client, loop, req, resp, fs, hist >>

\* put_archive raises, or it is made and exec_run raises after it: except
\* Exception logs it, and execute_code goes on
SvcCopyInFails(r) ==
    /\ deployed = "service"
    /\ pc[r] = "copyin"
    /\ loop = r
    /\ loc' = [loc EXCEPT ![r].tar = TarBuffer(r), ![r].copiedTo = PutArchivePath,
                          ![r].copyFailed = TRUE]
    /\ \E put \in BOOLEAN :
        units' = IF put /\ ~MountedAtData(loc[r].name)
                 THEN [units EXCEPT ![loc[r].name].data = @ \cup {FileMember(f) : f \in TarBuffer(r)}]
                 ELSE units
    /\ pc' = [pc EXCEPT ![r] = "wait"]
    /\ UNCHANGED << boot, deployed, client, loop, req, resp, fs, hist >>

\* container.wait(timeout=timeout) returns {'StatusCode': status}; the unit has
\* exited having written b
SvcWait(r) ==
    /\ deployed = "service"
    /\ pc[r] = "wait"
    /\ loop = r
    /\ \E status \in ExitCodes, b \in LogBytes :
        /\ units' = [units EXCEPT ![loc[r].name].running = FALSE, ![loc[r].name].log = b,
                                  ![loc[r].name].data =
                                      IF MountedAtData(loc[r].name) THEN @
                                      ELSE @ \cup {FileMember(f) : f \in Wrote(b)}]
        /\ fs' = IF MountedAtData(loc[r].name) /\ fs[r].exists
                 THEN [fs EXCEPT ![r].files = @ \cup Wrote(b)]
                 ELSE fs
        /\ loc' = [loc EXCEPT ![r].exit_code = status]
        /\ hist' = [hist EXCEPT ![r].wait = "exit", ![r].status = status, ![r].flushed = b]
    /\ pc' = [pc EXCEPT ![r] = "extract"]
    /\ UNCHANGED << boot, deployed, client, loop, req, resp >>

\* Variant of SvcWaitTimeout in which the expiry ends the request with the
\* 500 at once, the finally block not run.
SvcWaitTimeout_SkipsCleanup(r) ==
    /\ deployed = "service"
    /\ pc[r] = "wait"
    /\ loop = r
    /\ \E b \in LogBytes :
        /\ units' = [units EXCEPT ![loc[r].name].log = b]
        /\ hist' = [hist EXCEPT ![r].wait = "timeout", ![r].flushed = b]
    /\ resp' = [resp EXCEPT ![r] = HttpError(500)]
    /\ pc' = [pc EXCEPT ![r] = "done"]
    /\ loc' = [loc EXCEPT ![r] = [InitLoc EXCEPT !.name = loc[r].name]]
    /\ loop' = NoReq
    /\ UNCHANGED << boot, deployed, client, req, fs >>

\* container.wait raises when `timeout` seconds pass with the unit still running,
\* which has flushed b by then
SvcWaitTimeout(r) ==
    /\ deployed = "service"
    /\ pc[r] = "wait"
    /\ loop = r
    /\ \E b \in LogBytes :
        /\ units' = [units EXCEPT ![loc[r].name].log = b]
        /\ hist' = [hist EXCEPT ![r].wait = "timeout", ![r].flushed = b]
    /\ ExceptException(r)
    /\ UNCHANGED << boot, deployed, client, req, loc, fs >>

\* _extract_images_from_container: the archive of /data is read back and its
\* images are collected
SvcExtract(r) ==
    /\ deployed = "service"
    /\ pc[r] = "extract"
    /\ loop = r
    /\ loc' = [loc EXCEPT ![r].generated_images = ExtractImages(ArchiveOf(loc[r].name)),
                          ![r].readFrom = GetArchivePath]
    /\ pc' = [pc EXCEPT ![r] = "logs"]
    /\ hist' = [hist EXCEPT ![r].extract = "read"]
    /\ UNCHANGED << boot, deployed, client, loop, req, resp, units, fs >>

\* Variant of SvcExtractFails in which the failure leaves the helper and fails
\* the request.
SvcExtractFails_Raises(r) ==
    /\ deployed = "service"
    /\ pc[r] = "extract"
    /\ loop = r
    /\ ExtractImages(ArchiveOf(loc[r].name)) # {}
    /\ loc' = [loc EXCEPT ![r].readFrom = GetArchivePath]
    /\ hist' = [hist EXCEPT ![r].extract = "failed"]
    /\ ExceptException(r)
    /\ UNCHANGED << boot, deployed, client, req, units, fs >>

\* get_archive or tarfile.open raises: logged, and the list stays empty. With
\* no image in the archive the failed read returns what the successful one
\* returns, and SvcExtract stands for both.
SvcExtractFails(r) ==
    /\ deployed = "service"
    /\ pc[r] = "extract"
    /\ loop = r
    /\ ExtractImages(ArchiveOf(loc[r].name)) # {}
    /\ loc' = [loc EXCEPT ![r].readFrom = GetArchivePath]
    /\ pc' = [pc EXCEPT ![r] = "logs"]
    /\ hist' = [hist EXCEPT ![r].extract = "failed"]
    /\ UNCHANGED << boot, deployed, client, loop, req, resp, units, fs >>

\* Variant of Success that takes every non-negative exit code for a success.
Success_NonNegative(exit_code) == exit_code >= 0

\* success=exit_code == 0
Success(exit_code) == exit_code = 0

\* logs = container.logs(...).decode('utf-8'); return ExecuteResponse(...)
SvcLogs(r) ==
    /\ deployed = "service"
    /\ pc[r] = "logs"
    /\ loop = r
    /\ DecodeOk(units[loc[r].name].log)
    /\ resp' = [resp EXCEPT ![r] =
            [Result(Success(loc[r].exit_code), loc[r].exit_code, units[loc[r].name].log)
                EXCEPT !.generated_images = loc[r].generated_images]]
    /\ pc' = [pc EXCEPT ![r] = "cleanup_unit"]
    /\ UNCHANGED << boot, deployed, client, loop, req, loc, units, fs, hist >>

\* container.logs raises, or the bytes are not valid UTF-8 and decode raises
SvcLogsFails(r) ==
    /\ deployed = "service"
    /\ pc[r] = "logs"
    /\ loop = r
    /\ hist' = [hist EXCEPT ![r].logsFailed = TRUE]
    /\ ExceptException(r)
    /\ UNCHANGED << boot, deployed, client, req, loc, units, fs >>

\* Variant of SvcCleanupUnit that looks the container up and does not remove it.
SvcCleanupUnit_NoRemove(r) ==
    /\ deployed = "service"
    /\ pc[r] = "cleanup_unit"
    /\ loop = r
    /\ hist' = [hist EXCEPT ![r].cleanups = @ + 1]
    /\ pc' = [pc EXCEPT ![r] = "cleanup_dir"]
    /\ UNCHANGED << boot, deployed, client, loop, req, loc, resp, units, fs >>

\* Variant of SvcCleanupUnit in which NotFound is not passed over: the lookup of
\* an absent container raises out of the finally block.
SvcCleanupUnit_NotFoundRaises(r) ==
    /\ deployed = "service"
    /\ pc[r] = "cleanup_unit"
    /\ loop = r
    /\ IF units[loc[r].name].exists
       THEN units' = [units EXCEPT ![loc[r].name] = NoUnit] /\ UNCHANGED resp
       ELSE resp' = [resp EXCEPT ![r] = HttpError(404)] /\ UNCHANGED units
    /\ hist' = [hist EXCEPT ![r].cleanups = @ + 1]
    /\ pc' = [pc EXCEPT ![r] = "cleanup_dir"]
    /\ UNCHANGED << boot, deployed, client, loop, req, loc, fs >>

\* Variant of SvcCleanupUnit that removes the unit through the handle returned
\* by containers.run, and nothing when there is none.
SvcCleanupUnit_ByHandle(r) ==
    /\ deployed = "service"
    /\ pc[r] = "cleanup_unit"
    /\ loop = r
    /\ units' = IF loc[r].handle THEN [units EXCEPT ![loc[r].name] = NoUnit] ELSE units
    /\ hist' = [hist EXCEPT ![r].cleanups = @ + 1]
    /\ pc' = [pc EXCEPT ![r] = "cleanup_dir"]
    /\ UNCHANGED << boot, deployed, client, loop, req, loc, resp, fs >>

\* _cleanup_resources, first half: containers.get(container_name), then
\* container.remove(force=True).  NotFound is passed over.
SvcCleanupUnit(r) ==
    /\ deployed = "service"
    /\ pc[r] = "cleanup_unit"
    /\ loop = r
    /\ units' = [units EXCEPT ![loc[r].name] = NoUnit]
    /\ hist' = [hist EXCEPT ![r].cleanups = @ + 1]
    /\ pc' = [pc EXCEPT ![r] = "cleanup_dir"]
    /\ UNCHANGED << boot, deployed, client, loop, req, loc, resp, fs >>

\* Variant of SvcCleanupUnitFails in which the exception leaves _cleanup_resources:
\* the directory step is skipped and the caller gets the exception.
SvcCleanupUnitFails_Propagates(r) ==
    /\ deployed = "service"
    /\ pc[r] = "cleanup_unit"
    /\ loop = r
    /\ units[loc[r].name].exists
    /\ MayFail
    /\ hist' = [hist EXCEPT ![r].rmUnitFailed = TRUE, ![r].cleanups = @ + 1]
    /\ resp' = [resp EXCEPT ![r] = HttpError(500)]
    /\ pc' = [pc EXCEPT ![r] = "done"]
    /\ loop' = NoReq
    /\ UNCHANGED << boot, deployed, client, req, loc, units, fs >>

\* containers.get or container.remove raises something else: logged, swallowed
SvcCleanupUnitFails(r) ==
    /\ deployed = "service"
    /\ pc[r] = "cleanup_unit"
    /\ loop = r
    /\ units[loc[r].name].exists
    /\ MayFail
    /\ hist' = [hist EXCEPT ![r].rmUnitFailed = TRUE, ![r].cleanups = @ + 1]
    /\ pc' = [pc EXCEPT ![r] = "cleanup_dir"]
    /\ UNCHANGED << boot, deployed, client, loop, req, loc, resp, units, fs >>

\* execute_code is left: its locals are gone (the name drawn is kept for Uuid)
\* and the loop is free.
Leaves(r) ==
    /\ pc' = [pc EXCEPT ![r] = "done"]
    /\ loc' = [loc EXCEPT ![r] = [InitLoc EXCEPT !.name = loc[r].name]]
    /\ loop' = NoReq

\* Variant of CleanupDirectory that deletes the files and leaves the directory.
CleanupDirectory_FilesOnly(r) == [fs EXCEPT ![r].files = {}]

\* Variant of CleanupDirectory that removes every staging directory.
CleanupDirectory_All(r) == [s \in Reqs |-> NoDir]

\* FileService.cleanup_directory: shutil.rmtree when the directory exists
CleanupDirectory(r) == [fs EXCEPT ![r] = NoDir]

\* _cleanup_resources, second half: if host_work_dir: cleanup_directory(...);
\* then execute_code returns or raises what it had decided
SvcCleanupDir(r) ==
    /\ deployed = "service"
    /\ pc[r] = "cleanup_dir"
    /\ loop = r
    /\ fs' = IF loc[r].hwd THEN CleanupDirectory(r) ELSE fs
    /\ Leaves(r)
    /\ UNCHANGED << boot, deployed, client, req, resp, units, hist >>

\* shutil.rmtree raises: logged, swallowed
SvcCleanupDirFails(r) ==
    /\ deployed = "service"
    /\ pc[r] = "cleanup_dir"
    /\ loop = r
    /\ loc[r].hwd /\ fs[r].exists
    /\ MayFail
    /\ hist' = [hist EXCEPT ![r].rmDirFailed = TRUE]
    /\ Leaves(r)
    /\ UNCHANGED << boot, deployed, client, req, resp, units, fs >>

SvcNext(r) ==
    \/ SvcReject(r) \/ SvcUnavailable(r) \/ SvcNoDefault(r)
    \/ SvcEnter(r) \/ SvcMkdtempFails(r)
    \/ SvcDownloadOk(r) \/ SvcDownloadFails(r)
    \/ SvcCreate(r) \/ SvcCreateFails(r) \/ SvcContainerError(r)
    \/ SvcCopyIn(r) \/ SvcCopyInFails(r) \/ SvcWait(r) \/ SvcWaitTimeout(r)
    \/ SvcExtract(r) \/ SvcExtractFails(r) \/ SvcLogs(r) \/ SvcLogsFails(r)
    \/ SvcCleanupUnit(r) \/ SvcCleanupUnitFails(r)
    \/ SvcCleanupDir(r) \/ SvcCleanupDirFails(r)

\* ------------------------------------------------------------ src/src/main.py
\* The endpoint execute_code and SandboxExecutor.execute_code.

\* endpoint: not docker_client or not sandbox_executor -> HTTPException(500)
MonoUnavailable(r) ==
    /\ Arrives(r, "monolith")
    /\ ~client
    /\ \E q \in ExecuteRequest : EndsAtOnce(r, q, HttpError(500))

\* endpoint: not request.code -> HTTPException(400)
MonoReject(r) ==
    /\ Arrives(r, "monolith")
    /\ client
    /\ \E q \in ExecuteRequest :
        /\ q.code = << >>
        /\ EndsAtOnce(r, q, HttpError(400))

\* SandboxExecutor.execute_code up to the try block: container name drawn and,
\* only with reference files, tempfile.mkdtemp
MonoEnter(r) ==
    /\ Arrives(r, "monolith")
    /\ client
    /\ \E q \in ExecuteRequest, n \in Uuid :
        /\ q.code # << >>
        /\ req' = [req EXCEPT ![r] = q]
        /\ IF q.ref_files # << >>
           THEN /\ loc' = [loc EXCEPT ![r].name = n, ![r].hwd = TRUE]
                /\ fs' = [fs EXCEPT ![r] = [exists |-> TRUE, files |-> {}]]
                /\ hist' = [hist EXCEPT ![r].dir = TRUE]
                /\ pc' = [pc EXCEPT ![r] = "download"]
                /\ loop' = NoReq
           ELSE /\ loc' = [loc EXCEPT ![r].name = n]
                /\ pc' = [pc EXCEPT ![r] = "create"]
                /\ loop' = r
                /\ UNCHANGED << fs, hist >>
    /\ UNCHANGED << boot, deployed, client, resp, units >>

\* tempfile.mkdtemp raises outside any try: the exception leaves the endpoint (500)
MonoMkdtempFails(r) ==
    /\ Arrives(r, "monolith")
    /\ client
    /\ \E q \in ExecuteRequest :
        /\ q.code # << >>
        /\ q.ref_files # << >>
        /\ EndsAtOnce(r, q, HttpError(500))

\* SandboxExecutor.download_ref_files, one iteration: file staged and appended
\* to downloaded_files
MonoDownloadOk(r) ==
    /\ deployed = "monolith"
    /\ pc[r] = "download"
    /\ loop = NoReq
    /\ fs' = Staged(r)
    /\ loc' = [loc EXCEPT ![r].idx = @ + 1]
    /\ IF loc[r].idx = Len(req[r].ref_files)
       THEN pc' = [pc EXCEPT ![r] = "create"] /\ loop' = r
       ELSE UNCHANGED << pc, loop >>
    /\ UNCHANGED << boot, deployed, client, req, resp, units, hist >>

\* The download fails with HTTPException(400); execute_code's own handler removes
\* temp_work_dir and re-raises.  If shutil.rmtree raises there, that exception
\* leaves instead (500) and the directory stays.
MonoDownloadFails(r) ==
    /\ deployed = "monolith"
    /\ pc[r] = "download"
    /\ loop = NoReq
    /\ \E partial \in BOOLEAN, rmtreeOk \in BOOLEAN :
        /\ rmtreeOk \/ MayFail
        /\ fs' = IF rmtreeOk THEN CleanupDirectory(r)
                  ELSE IF partial THEN Staged(r) ELSE fs
        /\ resp' = [resp EXCEPT ![r] = IF rmtreeOk THEN HttpError(400) ELSE HttpError(500)]
        /\ hist' = [hist EXCEPT ![r].dlFailed = TRUE, ![r].rmDirFailed = ~rmtreeOk]
    /\ pc' = [pc EXCEPT ![r] = "done"]
    /\ loc' = [loc EXCEPT ![r] = [InitLoc EXCEPT !.name = loc[r].name]]
    /\ UNCHANGED << boot, deployed, client, loop, req, units >>

\* The unit of the monolith: created without a volume
MonoUnit(r, isRunning) == [NewUnit(r, isRunning) EXCEPT !.bind = << >>]

\* except Exception: the result with the sentinel exit code; then finally
MonoExceptException(r) ==
    /\ resp' = [resp EXCEPT ![r] = Result(FALSE, SentinelExit, << "Execution error" >>)]
    /\ pc' = [pc EXCEPT ![r] = "cleanup_unit"]

\* container = docker_client.containers.run(**container_args)
MonoCreate(r) ==
    /\ deployed = "monolith"
    /\ pc[r] = "create"
    /\ loop = r
    /\ ~units[loc[r].name].exists
    /\ units' = [units EXCEPT ![loc[r].name] = MonoUnit(r, TRUE)]
    /\ loc' = [loc EXCEPT ![r].handle = TRUE]
    /\ hist' = [hist EXCEPT ![r].created = TRUE]
    /\ pc' = [pc EXCEPT ![r] = IF req[r].ref_files # << >> THEN "copyin" ELSE "wait"]
    /\ UNCHANGED << boot, deployed, client, loop, req, resp, fs >>

\* containers.run raises; `container` stays None
MonoCreateFails(r) ==
    /\ deployed = "monolith"
    /\ pc[r] = "create"
    /\ loop = r
    /\ \/ UNCHANGED units /\ hist' = [hist EXCEPT ![r].createFailed = TRUE]
       \/ /\ ~units[loc[r].name].exists
          /\ units' = [units EXCEPT ![loc[r].name] = MonoUnit(r, FALSE)]
          /\ hist' = [hist EXCEPT ![r].created = TRUE, ![r].createFailed = TRUE]
    /\ MonoExceptException(r)
    /\ UNCHANGED << boot, deployed, client, loop, req, loc, fs >>

\* containers.run raises docker.errors.ContainerError; `container` stays None
MonoContainerError(r) ==
    /\ deployed = "monolith"
    /\ pc[r] = "create"
    /\ loop = r
    /\ ~units[loc[r].name].exists
    /\ \E status \in NonZeroExit :
        resp' = [resp EXCEPT ![r] = Result(FALSE, status, << "Container error" >>)]
    /\ units' = [units EXCEPT ![loc[r].name] = MonoUnit(r, FALSE)]
    /\ hist' = [hist EXCEPT ![r].created = TRUE]
    /\ pc' = [pc EXCEPT ![r] = "cleanup_unit"]
    /\ UNCHANGED << boot, deployed, client, loop, req, loc, fs >>

\* mkdir -p in the unit, then put_archive of each downloaded file
MonoCopyIn(r) ==
    /\ deployed = "monolith"
    /\ pc[r] = "copyin"
    /\ loop = r
    /\ pc' = [pc EXCEPT ![r] = "wait"]
    /\ UNCHANGED << boot, deployed, client, loop, req, loc, resp, units, fs, hist >>

\* mkdir -p fails three times (RuntimeError) or a copy raises: re-raised
MonoCopyInFails(r) ==
    /\ deployed = "monolith"
    /\ pc[r] = "copyin"
    /\ loop = r
    /\ MonoExceptException(r)
    /\ UNCHANGED << boot, deployed, client, loop, req, loc, units, fs, hist >>

\* result = container.wait(timeout=timeout)
MonoWait(r) ==
    /\ deployed = "monolith"
    /\ pc[r] = "wait"
    /\ loop = r
    /\ \E status \in ExitCodes, b \in LogBytes :
        /\ units' = [units EXCEPT ![loc[r].name].running = FALSE, ![loc[r].name].log = b]
        /\ loc' = [loc EXCEPT ![r].exit_code = status]
        /\ hist' = [hist EXCEPT ![r].wait = "exit", ![r].status = status, ![r].flushed = b]
    /\ pc' = [pc EXCEPT ![r] = "logs"]
    /\ UNCHANGED << boot, deployed, client, loop, req, resp, fs >>

\* container.wait raises on the timeout
MonoWaitTimeout(r) ==
    /\ deployed = "monolith"
    /\ pc[r] = "wait"
    /\ loop = r
    /\ \E b \in LogBytes :
        /\ units' = [units EXCEPT ![loc[r].name].log = b]
        /\ hist' = [hist EXCEPT ![r].wait = "timeout", ![r].flushed = b]
    /\ MonoExceptException(r)
    /\ UNCHANGED << boot, deployed, client, loop, req, loc, fs >>

\* logs decoded, exit_code = result['StatusCode'], the result dict returned
MonoLogs(r) ==
    /\ deployed = "monolith"
    /\ pc[r] = "logs"
    /\ loop = r
    /\ DecodeOk(units[loc[r].name].log)
    /\ resp' = [resp EXCEPT ![r] =
            Result(Success(loc[r].exit_code), loc[r].exit_code, units[loc[r].name].log)]
    /\ pc' = [pc EXCEPT ![r] = "cleanup_unit"]
    /\ UNCHANGED << boot, deployed, client, loop, req, loc, units, fs, hist >>

\* container.logs or decode raises
MonoLogsFails(r) ==
    /\ deployed = "monolith"
    /\ pc[r] = "logs"
    /\ loop = r
    /\ hist' = [hist EXCEPT ![r].logsFailed = TRUE]
    /\ MonoExceptException(r)
    /\ UNCHANGED << boot, deployed, client, loop, req, loc, units, fs >>

\* finally: if container: container.remove(force=True)
MonoCleanupUnit(r) ==
    /\ deployed = "monolith"
    /\ pc[r] = "cleanup_unit"
    /\ loop = r
    /\ units' = IF loc[r].handle THEN [units EXCEPT ![loc[r].name] = NoUnit] ELSE units
    /\ pc' = [pc EXCEPT ![r] = "cleanup_dir"]
    /\ UNCHANGED << boot, deployed, client, loop, req, loc, resp, fs, hist >>

\* container.remove raises: logged, swallowed
MonoCleanupUnitFails(r) ==
    /\ deployed = "monolith"
    /\ pc[r] = "cleanup_unit"
    /\ loop = r
    /\ loc[r].handle
    /\ MayFail
    /\ hist' = [hist EXCEPT ![r].rmUnitFailed = TRUE]
    /\ pc' = [pc EXCEPT ![r] = "cleanup_dir"]
    /\ UNCHANGED << boot, deployed, client, loop, req, loc, resp, units, fs >>

\* finally: if temp_work_dir and temp_work_dir.exists(): shutil.rmtree(...)
MonoCleanupDir(r) ==
    /\ deployed = "monolith"
    /\ pc[r] = "cleanup_dir"
    /\ loop = r
    /\ fs' = IF loc[r].hwd THEN CleanupDirectory(r) ELSE fs
    /\ Leaves(r)
    /\ UNCHANGED << boot, deployed, client, req, resp, units, hist >>

\* shutil.rmtree raises: logged, swallowed
MonoCleanupDirFails(r) ==
    /\ deployed = "monolith"
    /\ pc[r] = "cleanup_dir"
    /\ loop = r
    /\ loc[r].hwd /\ fs[r].exists
    /\ MayFail
    /\ hist' = [hist EXCEPT ![r].rmDirFailed = TRUE]
    /\ Leaves(r)
    /\ UNCHANGED << boot, deployed, client, req, resp, units, fs >>

MonoNext(r) ==
    \/ MonoUnavailable(r) \/ MonoReject(r) \/ MonoEnter(r) \/ MonoMkdtempFails(r)
    \/ MonoDownloadOk(r) \/ MonoDownloadFails(r)
    \/ MonoCreate(r) \/ MonoCreateFails(r) \/ MonoContainerError(r)
    \/ MonoCopyIn(r) \/ MonoCopyInFails(r)
    \/ MonoWait(r) \/ MonoWaitTimeout(r) \/ MonoLogs(r) \/ MonoLogsFails(r)
    \/ MonoCleanupUnit(r) \/ MonoCleanupUnitFails(r)
    \/ MonoCleanupDir(r) \/ MonoCleanupDirFails(r)

Next == \E r \in Reqs : SvcNext(r) \/ MonoNext(r)

Spec == Init /\ [][Next]_vars

\* ------------------------------------------------- staging and copy-in alone
\* One request of the service whose descriptors carry any filename and whose
\* work_dir is /data, another directory, or a directory below /data.
StageReqs == {"r1"}
StageWorkDirs == WorkDirs \cup {<< "data", "out" >>}
StageFiles == (1..MaxRefFiles) \cup RichFiles
StageLists ==
    {l \in UNION {[1..n -> StageFiles] : n \in 1..MaxRefFiles} :
        \A i, j \in 1..Len(l) : i # j => l[i] # l[j]}
StageRequest ==
    {[PlainRequest EXCEPT !.work_dir = w, !.ref_files = l] : w \in StageWorkDirs, l \in StageLists}

StageInit ==
    /\ deployed = "service"
    /\ client = TRUE
    /\ boot = Booted("service", TRUE)
    /\ loop = NoReq
    /\ req = [r \in Reqs |-> NullRequest]
    /\ pc = [r \in Reqs |-> "idle"]
    /\ loc = [r \in Reqs |-> InitLoc]
    /\ resp = [r \in Reqs |-> NoResp]
    /\ units = [n \in Names |-> NoUnit]
    /\ fs = [r \in Reqs |-> NoDir]
    /\ hist = [r \in Reqs |-> InitHist]

\* service: a request with reference files; container name drawn, mkdtemp succeeds
StageEnter(r) ==
    /\ Arrives(r, "service")
    /\ client
    /\ \E q \in StageRequest, n \in Uuid :
        /\ req' = [req EXCEPT ![r] = q]
        /\ loc' = [loc EXCEPT ![r].name = n, ![r].hwd = TRUE]
        /\ fs' = [fs EXCEPT ![r] = [exists |-> TRUE, files |-> {}]]
        /\ hist' = [hist EXCEPT ![r].dir = TRUE]
        /\ pc' = [pc EXCEPT ![r] = "download"]
        /\ loop' = NoReq
    /\ UNCHANGED << boot, deployed, client, resp, units >>

StageNext ==
    \E r \in StageReqs :
        \/ StageEnter(r)
        \/ SvcDownloadOk(r) \/ SvcDownloadFails(r)
        \/ SvcCreate(r) \/ SvcCreateFails(r) \/ SvcContainerError(r)
        \/ SvcCopyIn(r) \/ SvcCopyInFails(r) \/ SvcWait(r) \/ SvcWaitTimeout(r)
        \/ SvcExtract(r) \/ SvcExtractFails(r) \/ SvcLogs(r) \/ SvcLogsFails(r)
        \/ SvcCleanupUnit(r) \/ SvcCleanupUnitFails(r)
        \/ SvcCleanupDir(r) \/ SvcCleanupDirFails(r)

StageSpec == StageInit /\ [][StageNext]_vars

\* ------------------------------------------- _cleanup_resources, run twice
\* _cleanup_resources(docker_client, container_name, host_work_dir) invoked on any
\* state of the unit and of the staging directory, and then invoked again with
\* the same arguments.

\* The states a unit under the name can be in: absent, running, or exited.
UnitStates ==
    {NoUnit} \cup {[NewUnit("r1", run) EXCEPT !.log = b] :
                      run \in BOOLEAN, b \in LogBytes \cup {<< >>}}

\* The states of the staging directory: absent, or present with some files.
DirStates == {NoDir} \cup {[exists |-> TRUE, files |-> F] : F \in SUBSET (1..MaxRefFiles)}

\* What execute_code has decided to return or raise when the finally block runs.
Decided == {HttpError(500), Result(TRUE, 0, << "h" >>)}

\* The end states one invocation can leave: the unit removed (or left, when it
\* is absent or the removal raised and was swallowed), the directory removed
\* (or left, when host_work_dir is None, it is absent, or rmtree raised).
CleanupOutcomes(u, d, hwd) ==
    {<< u2, d2 >> : u2 \in (IF u.exists THEN {NoUnit, u} ELSE {u}),
                    d2 \in (IF hwd /\ d.exists THEN {NoDir, d} ELSE {d})}

CleanupInit ==
    /\ deployed = "service"
    /\ client = TRUE
    /\ boot = Booted(deployed, client)
    /\ loop = "r1"
    /\ req = [r \in Reqs |-> IF r = "r1" THEN PlainRequest ELSE NullRequest]
    /\ pc = [r \in Reqs |-> IF r = "r1" THEN "cleanup_unit" ELSE "idle"]
    /\ \E u \in UnitStates, d \in DirStates, hwd \in BOOLEAN, x \in Decided :
        /\ hwd \/ d = NoDir
        /\ units = [n \in Names |-> IF n = "n1" THEN u ELSE NoUnit]
        /\ fs = [r \in Reqs |-> IF r = "r1" THEN d ELSE NoDir]
        /\ loc = [r \in Reqs |-> IF r = "r1" THEN [InitLoc EXCEPT !.name = "n1", !.hwd = hwd]
                                              ELSE InitLoc]
        /\ resp = [r \in Reqs |-> IF r = "r1" THEN x ELSE NoResp]
        /\ hist = [r \in Reqs |-> IF r = "r1" THEN [InitHist EXCEPT !.dir = hwd, !.snap0 = << u, d, x >>]
                                               ELSE InitHist]

\* The second invocation, with the arguments of the first.
CleanupAgain(r) ==
    /\ deployed = "service"
    /\ pc[r] = "done"
    /\ hist[r].cleanups = 1
    /\ loop = NoReq
    /\ pc' = [pc EXCEPT ![r] = "cleanup_unit"]
    /\ loop' = r
    /\ loc' = [loc EXCEPT ![r].hwd = hist[r].dir]
    /\ hist' = [hist EXCEPT ![r].snap1 = << units[loc[r].name], fs[r] >>,
                            ![r].rmUnitFailed = FALSE, ![r].rmDirFailed = FALSE]
    /\ UNCHANGED << boot, deployed, client, req, resp, units, fs >>

CleanupNext ==
    \E r \in Reqs :
        \/ SvcCleanupUnit(r) \/ SvcCleanupUnitFails(r)
        \/ SvcCleanupDir(r) \/ SvcCleanupDirFails(r)
        \/ CleanupAgain(r)

CleanupSpec == CleanupInit /\ [][CleanupNext]_vars

\* ------------------------------------- _extract_images_from_container alone
\* The read-back of a unit whose /data holds any few of these entries: images in
\* upper and lower case, in a subdirectory, of 0 to 4 bytes; a directory with an
\* image name; files with other names.
Path(chars) == << "d", "/" >> \o chars
TarFile(chars, b) == [name |-> Path(chars), isfile |-> TRUE, bytes |-> b]
Members ==
    {TarFile(<< "a", ".", "p", "n", "g" >>, << 137, 80, 78 >>),
     TarFile(<< "B", ".", "J", "P", "G" >>, << 255 >>),
     TarFile(<< "s", "/", "c", ".", "j", "p", "e", "g" >>, << 0, 255 >>),
     TarFile(<< "e", ".", "s", "v", "g" >>, << >>),
     TarFile(<< "g", ".", "G", "i", "f" >>, << 1, 2, 3, 4 >>),
     TarFile(<< "m", ".", "b", "m", "p" >>, << 66, 77 >>),
     DirMember(Path(<< "x", ".", "p", "n", "g" >>)),
     TarFile(<< "n", ".", "t", "x", "t" >>, << 110 >>),
     TarFile(<< "p", "n", "g" >>, << 1 >>),
     TarFile(<< "a", ".", "p", "n", "g", ".", "t" >>, << 2 >>)}

Archives == {A \in SUBSET Members : Cardinality(A) <= MaxArchive}

ExtractInit ==
    /\ deployed = "service"
    /\ client = TRUE
    /\ boot = Booted(deployed, client)
    /\ loop = "r1"
    /\ req = [r \in Reqs |-> IF r = "r1" THEN [PlainRequest EXCEPT !.work_dir = << "etc" >>]
                                          ELSE NullRequest]
    /\ pc = [r \in Reqs |-> IF r = "r1" THEN "extract" ELSE "idle"]
    /\ loc = [r \in Reqs |-> IF r = "r1" THEN [InitLoc EXCEPT !.name = "n1", !.hwd = TRUE, !.handle = TRUE]
                                          ELSE InitLoc]
    /\ resp = [r \in Reqs |-> NoResp]
    /\ \E A \in Archives :
        units = [n \in Names |-> IF n = "n1"
                                 THEN [NewUnit("r1", FALSE) EXCEPT !.log = << "h" >>, !.data = A]
                                 ELSE NoUnit]
    /\ fs = [r \in Reqs |-> IF r = "r1" THEN [exists |-> TRUE, files |-> {}] ELSE NoDir]
    /\ hist = [r \in Reqs |-> IF r = "r1"
                               THEN [InitHist EXCEPT !.created = TRUE, !.dir = TRUE, !.wait = "exit",
                                                     !.flushed = << "h" >>]
                               ELSE InitHist]

ExtractNext ==
    \E r \in Reqs : SvcExtract(r) \/ SvcExtractFails(r) \/ SvcLogs(r)

ExtractSpec == ExtractInit /\ [][ExtractNext]_vars

\* ------------------------------------------------ construction and /health
\* The process from its start: DOCKER_CLIENT_MAX_RETRIES is whatever the
\* environment sets, from none to the default.
StartupInit ==
    /\ deployed \in {"service", "monolith"}
    /\ client = FALSE
    /\ \E m \in 0..DOCKER_CLIENT_MAX_RETRIES : boot = Booting(m)
    /\ loop = NoReq
    /\ req = [r \in Reqs |-> NullRequest]
    /\ pc = [r \in Reqs |-> "idle"]
    /\ loc = [r \in Reqs |-> InitLoc]
    /\ resp = [r \in Reqs |-> NoResp]
    /\ units = [n \in Names |-> NoUnit]
    /\ fs = [r \in Reqs |-> NoDir]
    /\ hist = [r \in Reqs |-> InitHist]

\* is_available(): self.client is not None
is_available == client

\* for attempt in range(max_retries): docker.from_env and ping answer; the
\* client is set and the loop is left
ConnectOk ==
    /\ boot.phase = "connect"
    /\ boot.attempt < boot.max_retries
    /\ client' = TRUE
    /\ boot' = [boot EXCEPT !.attempts = @ + 1, !.succeeded = TRUE, !.phase = "image"]
    /\ UNCHANGED << deployed, loop, req, pc, loc, resp, units, fs, hist >>

\* Variant of ConnectFails that waits after every failed attempt, the last too.
ConnectFails_AlwaysSleeps ==
    /\ boot.phase = "connect"
    /\ boot.attempt < boot.max_retries
    /\ boot' = [boot EXCEPT !.attempts = @ + 1, !.failures = @ + 1, !.phase = "sleep"]
    /\ UNCHANGED << deployed, client, loop, req, pc, loc, resp, units, fs, hist >>

\* docker.from_env or ping raises: logged; time.sleep(retry_delay) follows only
\* if attempt < max_retries - 1
ConnectFails ==
    /\ boot.phase = "connect"
    /\ boot.attempt < boot.max_retries
    /\ boot' = [boot EXCEPT !.attempts = @ + 1, !.failures = @ + 1,
                            !.phase = IF boot.attempt < boot.max_retries - 1 THEN "sleep" ELSE "connect",
                            !.attempt = IF boot.attempt < boot.max_retries - 1 THEN @ ELSE @ + 1]
    /\ UNCHANGED << deployed, client, loop, req, pc, loc, resp, units, fs, hist >>

\* time.sleep(retry_delay) returns and the next attempt begins
RetryDelay ==
    /\ boot.phase = "sleep"
    /\ boot' = [boot EXCEPT !.sleeps = @ + 1, !.attempt = @ + 1, !.phase = "connect"]
    /\ UNCHANGED << deployed, client, loop, req, pc, loc, resp, units, fs, hist >>

\* The loop is over without a client: the process serves without one (the
\* monolith leaves sandbox_executor None, the service is constructed around a
\* DockerService that is not available).
ConnectExhausted ==
    /\ boot.phase = "connect"
    /\ boot.attempt >= boot.max_retries
    /\ boot' = [boot EXCEPT !.phase = "up", !.executor = (deployed = "service")]
    /\ UNCHANGED << deployed, client, loop, req, pc, loc, resp, units, fs, hist >>

\* Variant of EnsureImageExists that builds the image whatever the lookup says.
EnsureImageExists_AlwaysBuilds(lookup, built) ==
    /\ boot' = [boot EXCEPT !.lookup = lookup, !.builds = @ + 1,
                            !.phase = IF lookup # "error" /\ built THEN "up" ELSE "crashed",
                            !.executor = (lookup # "error" /\ built)]

\* _ensure_image_exists: images.get returns (found), raises ImageNotFound
\* (missing: images.build is called, and its exception is raised again) or
\* raises anything else (raised again). An exception out of the constructor
\* ends the process at import.
EnsureImageExists(lookup, built) ==
    /\ boot' = [boot EXCEPT !.lookup = lookup,
                            !.builds = IF lookup = "missing" THEN @ + 1 ELSE @,
                            !.phase = IF lookup = "found" \/ (lookup = "missing" /\ built)
                                      THEN "up" ELSE "crashed",
                            !.executor = (lookup = "found" \/ (lookup = "missing" /\ built))]

\* if self.client: self._ensure_image_exists()
ImageStep ==
    /\ boot.phase = "image"
    /\ \E lookup \in {"found", "missing", "error"}, built \in BOOLEAN :
        /\ lookup # "missing" => built
        /\ EnsureImageExists(lookup, built)
    /\ UNCHANGED << deployed, client, loop, req, pc, loc, resp, units, fs, hist >>

\* Variant of MonolithHealth that answers degraded when the ping raises.
MonolithHealth_PingDegrades(c, executor, ping, image) ==
    IF ~c \/ image = "error" THEN "unhealthy"
    ELSE IF ping /\ image = "found" /\ executor THEN "healthy"
    ELSE "degraded"

\* health_check of the monolith: unhealthy without a client or when ping or
\* images.get raises; healthy when the three flags are set; degraded otherwise
MonolithHealth(c, executor, ping, image) ==
    IF ~c THEN "unhealthy"
    ELSE IF ~ping THEN "unhealthy"
    ELSE IF image = "error" THEN "unhealthy"
    ELSE IF image = "found" /\ executor THEN "healthy"
    ELSE "degraded"

\* health_check of the router: healthy when the DockerService is available,
\* HTTPException(503) otherwise
RouterHealth ==
    IF is_available THEN [status |-> "healthy", code |-> 200] ELSE [status |-> "none", code |-> 503]

\* GET /health, the runtime at that moment answering the ping or not and
\* having the image, lacking it, or failing the lookup
HealthCheck ==
    /\ boot.phase = "up"
    /\ \E ping \in BOOLEAN, image \in {"found", "missing", "error"} :
        boot' = [boot EXCEPT !.health =
                    IF deployed = "monolith"
                    THEN [status |-> MonolithHealth(client, boot.executor, ping, image), code |-> 200,
                          ping |-> ping, image |-> image]
                    ELSE [status |-> RouterHealth.status, code |-> RouterHealth.code,
                          ping |-> ping, image |-> image]]
    /\ UNCHANGED << deployed, client, loop, req, pc, loc, resp, units, fs, hist >>

StartupNext ==
    \/ ConnectOk \/ ConnectFails \/ RetryDelay \/ ConnectExhausted
    \/ ImageStep
    \/ HealthCheck

StartupSpec == StartupInit /\ [][StartupNext]_vars

\* ------------------------------------------------------------------ claims
Done(r) == pc[r] = "done"

\* A unit created by request r is registered with the runtime.
OwnUnit(r) == \E n \in Names : units[n].exists /\ units[n].owner = r

\* The path lies under the allowed root /data.
UnderAllowedRoot(w) == Len(w) >= 1 /\ w[1] = "data"

OutOfRange(t) == ~t.isNone /\ (t.v < MinTimeout \/ t.v > MaxTimeout)

\* C1, as stated: when SandboxService.execute_code has returned or raised, no unit
\* it created exists any more.
C1_Original ==
    \A r \in Reqs :
        deployed = "service" /\ Done(r) /\ hist[r].created => ~OwnUnit(r)

\* C1, amended: when SandboxService.execute_code has returned or raised, a unit it
\* created is gone unless the lookup or the force-removal itself raised (which
\* _cleanup_resources logs and swallows), whatever happened after creation.
C1_ForceRemoved ==
    \A r \in Reqs :
        deployed = "service" /\ Done(r) /\ hist[r].created
            => ~OwnUnit(r) \/ hist[r].rmUnitFailed

\* C1's case: a unit was created, the wait timed out, and the unit was removed.
C1_Witness ==
    \E r \in Reqs :
        /\ deployed = "service" /\ Done(r) /\ hist[r].created
        /\ hist[r].wait = "timeout" /\ ~OwnUnit(r) /\ ~hist[r].rmUnitFailed

\* C2, as stated: when SandboxService.execute_code has returned or raised, the
\* staging directory it created no longer exists.
C2_Original ==
    \A r \in Reqs :
        deployed = "service" /\ Done(r) /\ hist[r].dir => ~fs[r].exists

\* C2, amended: when SandboxService.execute_code has returned or raised, the
\* staging directory it created no longer exists unless shutil.rmtree itself
\* raised (which cleanup_directory logs and swallows), on every path.
C2_Deleted ==
    \A r \in Reqs :
        deployed = "service" /\ Done(r) /\ hist[r].dir
            => ~fs[r].exists \/ hist[r].rmDirFailed

\* C2's case: a staging directory was created, the unit was created and ran, and
\* the directory is gone at the return.
C2_Witness ==
    \E r \in Reqs :
        /\ deployed = "service" /\ Done(r) /\ hist[r].dir /\ hist[r].created
        /\ req[r].ref_files # << >> /\ ~fs[r].exists /\ ~hist[r].rmDirFailed

\* C3: a request to SandboxService whose wait timed out with the unit still
\* running ends with a normal result, success false, whose output is what the
\* unit had flushed.
C3_TimeoutIsResult ==
    \A r \in Reqs :
        deployed = "service" /\ Done(r) /\ hist[r].wait = "timeout"
            => /\ resp[r].kind = "result"
               /\ ~resp[r].success
               /\ resp[r].output = hist[r].flushed

\* C4: a request to the router with an integer timeout outside [1,300] is
\* rejected with 400, and neither a unit nor a staging directory is created.
C4_TimeoutRejected ==
    \A r \in Reqs :
        deployed = "service" /\ pc[r] # "idle" /\ OutOfRange(req[r].timeout)
            => /\ ~hist[r].created
               /\ ~hist[r].dir
               /\ Done(r) => resp[r] = HttpError(400)

\* C5: no unit is created for a request whose work_dir is outside /data, and no
\* unit has a mount target outside /data.
C5_WorkDirUnderRoot ==
    /\ \A r \in Reqs :
        pc[r] # "idle" /\ ~UnderAllowedRoot(req[r].work_dir) => ~hist[r].created
    /\ \A n \in Names :
        units[n].exists /\ units[n].bind # << >> => UnderAllowedRoot(units[n].bind)

\* C6: a request whose code is empty or only whitespace creates no unit and no
\* staging directory and, the runtime being available, is answered 400.
C6_BlankCodeRejected ==
    \A r \in Reqs :
        pc[r] # "idle" /\ Strip(req[r].code) = << >>
            => /\ ~hist[r].created
               /\ ~hist[r].dir
               /\ Done(r) /\ client => resp[r] = HttpError(400)

\* C7: when the download of a reference file failed, the response of the
\* router's POST /execute is a 4xx error.
C7_DownloadFailureIs400 ==
    \A r \in Reqs :
        deployed = "service" /\ Done(r) /\ hist[r].dlFailed
            => resp[r].kind = "error" /\ resp[r].status \in 400..499

\* C8, as stated: when a download failed, no unit is ever created for the request
\* and its staging directory is gone when the response is produced.
C8_Original ==
    \A r \in Reqs :
        hist[r].dlFailed
            => /\ ~hist[r].created
               /\ Done(r) => ~fs[r].exists

\* C8, amended: when a download failed, no unit is ever created for the request,
\* and its staging directory is gone when the response is produced unless
\* shutil.rmtree itself raised.
C8_NoUnitDirRemoved ==
    \A r \in Reqs :
        hist[r].dlFailed
            => /\ ~hist[r].created
               /\ ~OwnUnit(r)
               /\ Done(r) => ~fs[r].exists \/ hist[r].rmDirFailed

\* C8's case: the second of two downloads failed, and the response was produced
\* with the directory removed.
C8_Witness ==
    \E r \in Reqs :
        /\ Done(r) /\ hist[r].dlFailed /\ hist[r].dir
        /\ Len(req[r].ref_files) = 2 /\ ~fs[r].exists /\ ~hist[r].rmDirFailed

\* C9: a request to SandboxService whose unit exited with a non-zero status ends
\* with a normal result: success false, that exit code, and the unit's output.
C9_NonZeroExitIsResult ==
    \A r \in Reqs :
        deployed = "service" /\ Done(r) /\ hist[r].wait = "exit" /\ hist[r].status # 0
            => /\ resp[r].kind = "result" /\ ~resp[r].success
               /\ resp[r].exit_code = hist[r].status
               /\ resp[r].output = hist[r].flushed

\* C10: in every result, on every return path of both execute_code methods,
\* success is true exactly when exit_code is 0.
C10_SuccessIffZero ==
    \A r \in Reqs :
        resp[r].kind = "result" => (resp[r].success <=> resp[r].exit_code = 0)

\* C10's case: one request returned a successful result and another a failed one.
C10_Witness ==
    \E r, s \in Reqs :
        /\ Done(r) /\ resp[r].kind = "result" /\ resp[r].success
        /\ Done(s) /\ resp[s].kind = "result" /\ ~resp[s].success

\* C11: when SandboxService.execute_code is called with the runtime unavailable,
\* or its containers.run call fails, the request ends with a 5xx error and never
\* with a result.
C11_InfrastructureIs5xx ==
    \A r \in Reqs :
        /\ deployed = "service" /\ Done(r) /\ ~RouterRejects(req[r])
        /\ ~client \/ hist[r].createFailed
        => resp[r].kind = "error" /\ resp[r].status \in 500..599

\* C11's case: containers.run failed after the staging directory was made, and
\* the request ended.
C11_Witness ==
    \E r \in Reqs :
        /\ deployed = "service" /\ Done(r) /\ hist[r].createFailed /\ hist[r].dir
        /\ resp[r] = HttpError(500)

\* C12, as stated: every request to the router that has ended has had
\* _cleanup_resources invoked exactly once.
C12_Original ==
    \A r \in Reqs :
        deployed = "service" /\ Done(r) => hist[r].cleanups = 1

\* C12, amended: _cleanup_resources is never invoked twice for a request; a
\* request that reached the try block of SandboxService.execute_code (its
\* container name was drawn) has had it invoked exactly once when it ends, on the
\* return and on every raise; a request that ended before the try block (router
\* 400, service 503, missing default timeout) has had it invoked not at all.
C12_OncePerEnteredRequest ==
    \A r \in Reqs :
        deployed = "service"
            => /\ hist[r].cleanups <= 1
               /\ Done(r) => hist[r].cleanups = IF loc[r].name # NoName THEN 1 ELSE 0

\* C12's case: one request ended with a result and another with the 500 of an
\* unexpected exception, each cleaned up once.
C12_Witness ==
    \E r, s \in Reqs :
        /\ deployed = "service"
        /\ Done(r) /\ resp[r].kind = "result" /\ hist[r].cleanups = 1
        /\ Done(s) /\ resp[s] = HttpError(500) /\ hist[s].logsFailed /\ hist[s].cleanups = 1

\* C13: _cleanup_resources run twice never raises (what execute_code had decided
\* stays decided), every end state of the two runs is an end state one run can
\* leave from the same start, and when no removal failed in the first run the
\* second run changes nothing.
C13_CleanupIdempotent ==
    \A r \in Reqs :
        Done(r) /\ hist[r].cleanups >= 1
            => /\ resp[r] = hist[r].snap0[3]
               /\ << units[loc[r].name], fs[r] >>
                      \in CleanupOutcomes(hist[r].snap0[1], hist[r].snap0[2], hist[r].dir)
               /\ hist[r].cleanups = 2 /\ hist[r].snap1 = << NoUnit, IF hist[r].dir THEN NoDir ELSE hist[r].snap0[2] >>
                      => << units[loc[r].name], fs[r] >> = hist[r].snap1

\* C13's case: the unit and the directory were present, the first run removed
\* them, and the second run has ended.
C13_Witness ==
    \E r \in Reqs :
        /\ Done(r) /\ hist[r].cleanups = 2
        /\ hist[r].snap0[1].exists /\ hist[r].snap0[2].exists
        /\ hist[r].snap1 = << NoUnit, NoDir >>
        /\ ~units[loc[r].name].exists /\ ~fs[r].exists

\* C14: in the cleanup of both execute_code methods the unit step comes first and
\* is always followed by the directory step, also when the unit step failed; the
\* directory step is entered from nowhere else; neither step changes what the
\* request returns or raises; and after a failed unit step the staging directory
\* is gone at the end unless its own removal failed.
C14_UnitThenDirectory ==
    [][\A r \in Reqs :
        /\ pc[r] = "cleanup_unit" /\ pc'[r] # "cleanup_unit" => pc'[r] = "cleanup_dir"
        /\ pc[r] # "cleanup_dir" /\ pc'[r] = "cleanup_dir" => pc[r] = "cleanup_unit"
        /\ pc[r] \in {"cleanup_unit", "cleanup_dir"} => resp'[r] = resp[r]
        /\ pc[r] = "cleanup_dir" /\ pc'[r] = "done" /\ hist[r].rmUnitFailed /\ hist[r].dir
              => ~fs'[r].exists \/ hist'[r].rmDirFailed]_vars

\* C14's case: the removal of the unit failed, the directory was removed all the
\* same, and the request returned its result.
C14_Witness ==
    \E r \in Reqs :
        /\ Done(r) /\ hist[r].rmUnitFailed /\ hist[r].dir
        /\ ~fs[r].exists /\ ~hist[r].rmDirFailed
        /\ resp[r].kind = "result" /\ resp[r].success

\* The files of request r's own: those staged for its descriptors and those its
\* own code wrote.
OwnFiles(r) == {req[r].ref_files[i] : i \in 1..Len(req[r].ref_files)} \cup Wrote(hist[r].flushed)

\* C15: with two requests of SandboxService interleaved in any way, the output of
\* a request's result is what its own unit wrote, its generated_images are files
\* of its own, and the directory its unit sees holds only files of its own.
C15_Isolation ==
    \A r \in Reqs :
        deployed = "service"
            => /\ fs[r].files \subseteq OwnFiles(r)
               /\ resp[r].kind = "result" /\ hist[r].wait = "exit"
                    => /\ resp[r].output = hist[r].flushed
                       /\ \A img \in resp[r].generated_images :
                            \E f \in OwnFiles(r) : img.filename = FileName(f)
               /\ \A n \in Names :
                    units[n].exists /\ units[n].owner = r /\ pc[r] # "done"
                        => loc[r].name = n

\* C15's case: while the first request was waiting for a download, having staged
\* a file, the second ran and returned its own output and its own image.
C15_Witness ==
    /\ deployed = "service"
    /\ pc["r1"] = "download" /\ fs["r1"].files # {}
    /\ Done("r2") /\ resp["r2"].kind = "result"
    /\ resp["r2"].output = << "w" >> /\ resp["r2"].generated_images # {}

InFlight(r) == pc[r] \notin {"idle", "done"}

\* C16, as stated: two in-flight requests never hold the same unit name.  (Their
\* staging directories are distinct by tempfile.mkdtemp.)
C16_Original ==
    \A r, s \in Reqs :
        r # s /\ InFlight(r) /\ InFlight(s) => loc[r].name # loc[s].name

\* C16, amended: an in-flight request that has created its unit and not yet
\* cleaned up holds, under its name, a unit of its own: no other request holds a
\* unit under that name, although another in-flight request may have drawn the
\* same name.
C16_UnitHeldIsOwn ==
    \A r \in Reqs :
        pc[r] \in {"copyin", "wait", "extract", "logs"} /\ loc[r].handle
            => /\ units[loc[r].name].exists
               /\ units[loc[r].name].owner = r
               /\ \A s \in Reqs \ {r} : ~(InFlight(s) /\ loc[s].handle)

\* C16's case: two in-flight requests have drawn the same name, and one of them
\* holds its unit under it.
C16_Witness ==
    \E r, s \in Reqs :
        /\ r # s /\ pc[r] = "download" /\ pc[s] = "wait"
        /\ loc[r].name = loc[s].name /\ loc[s].handle
        /\ units[loc[s].name].owner = s

\* C17, as stated: a request's cleanup removes only a unit that this request
\* itself created.
C17_Original ==
    [][\A r \in Reqs :
        /\ pc[r] = "cleanup_unit"
        /\ units[loc[r].name].exists /\ ~units'[loc[r].name].exists
        => units[loc[r].name].owner = r]_vars

\* C17, amended: a unit is removed only by the cleanup of a request that holds
\* its name, and it is that request's own unit or the unit a finished request
\* left behind under the same name, never the unit of another in-flight request;
\* a staging directory is removed only by the request that created it.
C17_RemovesOwnOrLeftBehind ==
    [][/\ \A n \in Names :
            units[n].exists /\ ~units'[n].exists
                => \E r \in Reqs :
                    /\ pc[r] = "cleanup_unit" /\ loc[r].name = n
                    /\ units[n].owner = r \/ ~InFlight(units[n].owner)
       /\ \A s \in Reqs :
            fs[s].exists /\ ~fs'[s].exists
                => pc[s] \in {"cleanup_dir", "download"} /\ pc'[s] = "done"]_vars

\* C17's case: a finished request's unit, whose removal had failed, has been
\* removed by the cleanup of another request.
C17_Witness ==
    \E s \in Reqs :
        Done(s) /\ hist[s].created /\ hist[s].rmUnitFailed /\ ~OwnUnit(s)

\* C18: while a request of SandboxService is in unit creation, copy-in, the wait,
\* copy-out, log reading or cleanup, another request that has arrived or whose
\* download has answered can take a step.
C18_OthersTakeSteps ==
    \A r, s \in Reqs :
        /\ deployed = "service" /\ r # s
        /\ pc[r] \in {"create", "copyin", "wait", "extract", "logs", "cleanup_unit", "cleanup_dir"}
        /\ pc[s] \in {"idle", "download"}
        => ENABLED SvcNext(s)

\* The name ends, whatever the case of its letters, in one of the six suffixes.
HasImageSuffix(fn) ==
    \E ext \in {<< ".", "p", "n", "g" >>, << ".", "j", "p", "g" >>, << ".", "j", "p", "e", "g" >>,
                 << ".", "g", "i", "f" >>, << ".", "b", "m", "p" >>, << ".", "s", "v", "g" >>} :
        /\ Len(fn) >= Len(ext)
        /\ \A i \in 1..Len(ext) : LowerChar(fn[Len(fn) - Len(ext) + i]) = ext[i]

\* m's name is the path dir/fn for some directory path dir.
HasBasename(m, fn) ==
    /\ Len(m.name) > Len(fn)
    /\ SubSeq(m.name, Len(m.name) - Len(fn) + 1, Len(m.name)) = fn
    /\ m.name[Len(m.name) - Len(fn)] = "/"
    /\ \A i \in 1..Len(fn) : fn[i] # "/"

\* The images a request has collected or returned.
ImagesOf(r) == loc[r].generated_images \cup resp[r].generated_images

\* C19: every entry of generated_images is a regular file of the read-back
\* archive whose basename has an image suffix; no directory entry and no file
\* with another name is among them.
C19_OnlyImageFiles ==
    \A r \in Reqs : \A img \in ImagesOf(r) :
        /\ HasImageSuffix(img.filename)
        /\ \E m \in ArchiveOf("n1") : m.isfile /\ HasBasename(m, img.filename)
        /\ \A m \in ArchiveOf("n1") :
            ~m.isfile \/ ~HasImageSuffix(m.name) => ~\E j \in ImagesOf(r) : HasBasename(m, j.filename)

\* C19's case: the archive held an image in upper case, a directory with an
\* image name and a text file, and the result holds the image alone.
C19_Witness ==
    /\ Done("r1") \/ pc["r1"] = "cleanup_unit"
    /\ units["n1"].data =
            {TarFile(<< "B", ".", "J", "P", "G" >>, << 255 >>),
             DirMember(Path(<< "x", ".", "p", "n", "g" >>)),
             TarFile(<< "n", ".", "t", "x", "t" >>, << 110 >>)}
    /\ Cardinality(resp["r1"].generated_images) = 1
    /\ \E img \in resp["r1"].generated_images : img.filename = << "B", ".", "J", "P", "G" >>

\* C20: for every returned artifact, decoding its content from base64 gives
\* exactly `size` bytes, and they are the bytes of a file of that name in the
\* unit's archive.
C20_Base64RoundTrip ==
    \A r \in Reqs : \A img \in ImagesOf(r) :
        /\ Len(B64Decode(img.content)) = img.size
        /\ \E m \in ArchiveOf("n1") :
            m.isfile /\ HasBasename(m, img.filename) /\ B64Decode(img.content) = m.bytes

\* C20's case: images of 1, 2 and 3 bytes (every padding) were returned.
C20_Witness ==
    /\ pc["r1"] = "cleanup_unit"
    /\ {img.size : img \in resp["r1"].generated_images} = {1, 2, 3}

C22_ExtractionAlwaysRuns ==
    [][\A r \in Reqs :
        (deployed = "service" /\ hist'[r].wait # "none"
         /\ pc[r] # "cleanup_unit" /\ pc'[r] = "cleanup_unit")
            => hist'[r].extract # "none"]_vars

\* C23: the steps of a request never go backwards in the order stage, create,
\* copy in, wait, extract, read logs, cleanup; the unit is created only when
\* every reference file of the request is in the staging directory; extraction
\* starts only from a wait that returned; and extraction is left only for the
\* reading of the logs, so cleanup starts after it has finished.
StepRank(p) ==
    CASE p = "idle" -> 0
      [] p = "download" -> 1
      [] p = "create" -> 2
      [] p = "copyin" -> 3
      [] p = "wait" -> 4
      [] p = "extract" -> 5
      [] p = "logs" -> 6
      [] p = "cleanup_unit" -> 7
      [] p = "cleanup_dir" -> 8
      [] p = "done" -> 9

C23_StepOrder ==
    [][\A r \in Reqs :
        /\ StepRank(pc'[r]) >= StepRank(pc[r])
        /\ (hist'[r].created /\ ~hist[r].created) =>
              /\ pc[r] = "create"
              /\ hist[r].wait = "none"
              /\ fs[r].exists => \A i \in 1..Len(req[r].ref_files) : i \in fs[r].files
        /\ (pc'[r] = "extract" /\ pc[r] # "extract") =>
              /\ pc[r] = "wait"
              /\ hist'[r].wait = "exit"
        /\ (pc[r] = "extract" /\ pc'[r] # "extract") => pc'[r] = "logs"
        /\ (pc'[r] = "cleanup_unit" /\ pc[r] # "cleanup_unit") => pc[r] # "extract"
        /\ (pc'[r] = "cleanup_dir" /\ pc[r] # "cleanup_dir") => pc[r] = "cleanup_unit"]_vars

\* A request with two reference files went through every step and answered
\* with the images read back from its unit.
C23_Witness ==
    \E r \in Reqs :
        /\ deployed = "service"
        /\ Done(r)
        /\ Len(req[r].ref_files) = MaxRefFiles
        /\ hist[r].extract = "read"
        /\ resp[r].kind = "result"
        /\ resp[r].generated_images # {}
        /\ hist[r].cleanups = 1

\* ------------------------------------------------------------- fair runs
\* One request from its arrival to its end. A request that has entered
\* execute_code keeps being run: the event loop resumes a coroutine that can go
\* on, and every call into the runtime, the download and the file system
\* returns or raises. Arrivals are not forced. (From unit creation to the end
\* of cleanup the request holds the loop and no other request runs; while it
\* awaits a download it waits for nothing another request holds.)
FairReqs == {"r1"}

Continues(r) == pc[r] # "idle" /\ (SvcNext(r) \/ MonoNext(r))

FairNext == \E r \in FairReqs : SvcNext(r) \/ MonoNext(r)

FairSpec == Init /\ [][FairNext]_vars /\ \A r \in FairReqs : WF_vars(Continues(r))

\* C24, as stated: every request in execute_code eventually completes with no
\* unit of its own left.
C24_Original ==
    \A r \in Reqs : InFlight(r) ~> (Done(r) /\ ~OwnUnit(r))

\* C24: under fairness every request in execute_code eventually completes,
\* whether its unit exits or the wait expires, and when it completes after
\* having waited for its unit, that unit is gone or its removal raised and was
\* swallowed.
C24_CompletesAndCleans ==
    \A r \in Reqs :
        InFlight(r) ~> (Done(r) /\ (hist[r].wait # "none" => ~OwnUnit(r) \/ hist[r].rmUnitFailed))

\* A request whose wait expired has completed and its unit is removed.
C24_Witness ==
    \E r \in Reqs :
        /\ Done(r)
        /\ hist[r].created
        /\ hist[r].wait = "timeout"
        /\ ~OwnUnit(r)
        /\ hist[r].cleanups = 1

\* Client initialization is over: the loop of _initialize_client was left.
Initialized == boot.phase \in {"image", "up", "crashed"}

\* C25: client initialization makes at most max_retries attempts; an attempt
\* that succeeds is the last one; retry_delay is waited once after each failed
\* attempt but the last of the max_retries, so between attempts only; when the
\* loop is left a client is set exactly if an attempt succeeded, and
\* is_available() says whether a client is set.
C25_BoundedRetries ==
    /\ boot.attempts <= boot.max_retries
    /\ boot.attempts = boot.failures + (IF boot.succeeded THEN 1 ELSE 0)
    /\ boot.phase = "sleep" => boot.attempts < boot.max_retries /\ boot.sleeps = boot.attempts - 1
    /\ boot.phase = "connect" /\ boot.attempt < boot.max_retries => boot.sleeps = boot.attempts
    /\ (Initialized \/ boot.attempt >= boot.max_retries) /\ boot.attempts > 0
          => boot.sleeps = boot.attempts - 1
    /\ boot.succeeded => Initialized
    /\ Initialized => (client <=> boot.succeeded)
    /\ is_available <=> client

\* The third attempt succeeded after two failures and two waits, and the
\* process is up with its client.
C25_Witness ==
    /\ boot.phase = "up"
    /\ client
    /\ is_available
    /\ boot.max_retries = 3
    /\ boot.failures = 2
    /\ boot.sleeps = 2
    /\ boot.health = NoHealth

\* C29: at startup images.build is called once when images.get reported the
\* image missing, and is not called when the image was found (nor when the
\* lookup failed otherwise, nor without a client).
C29_BuildOnlyWhenMissing ==
    /\ boot.lookup = "missing" => boot.builds = 1
    /\ boot.lookup \in {"found", "error", "none"} => boot.builds = 0
    /\ boot.lookup # "none" => client

\* The image was missing and was built, once, and the process is up.
C29_Witness ==
    /\ boot.phase = "up"
    /\ boot.lookup = "missing"
    /\ boot.builds = 1
    /\ boot.executor

\* C26: every unit the runtime holds was created with the configured memory
\* limit and CPU quota, without network, with no-new-privileges and as the
\* unprivileged user, whatever its request asked for; and its command is the
\* three arguments python, -c and the whole code of its request.
C26_FixedProfile ==
    \A n \in Names :
        units[n].exists =>
            /\ units[n].profile = get_container_config
            /\ units[n].profile.network_disabled
            /\ units[n].profile.security_opt = << "no-new-privileges" >>
            /\ units[n].profile.user = "sandbox"
            /\ units[n].command = << << "python" >>, << "-c" >>, req[units[n].owner].code >>

\* Two units exist at once, one of a request with a work_dir outside /data and
\* one of a request with reference files.
C26_Witness ==
    \E n, m \in Names :
        /\ units[n].exists /\ units[m].exists
        /\ req[units[n].owner].work_dir = << "etc" >>
        /\ Len(req[units[m].owner].ref_files) = MaxRefFiles

\* What the claim says of an answer of GET /health: one of the three statuses,
\* healthy exactly when the runtime answers the ping, the image is there and
\* the executor is ready, unhealthy exactly when there is no client or the
\* probe raised.
ThreeStatuses ==
    /\ boot.health.code = 200
    /\ boot.health.status \in {"healthy", "degraded", "unhealthy"}
    /\ boot.health.status = "healthy"
          <=> (boot.health.ping /\ boot.health.image = "found" /\ boot.executor /\ client)
    /\ boot.health.status = "unhealthy"
          <=> (~client \/ ~boot.health.ping \/ boot.health.image = "error")

\* C27, as stated: every answer of GET /health is as ThreeStatuses says.
C27_Original ==
    boot.health.code # 0 => ThreeStatuses

\* C27: the health_check of src/src/main.py answers as ThreeStatuses says; the
\* one of the router answers healthy whenever a client was set at construction,
\* whatever the runtime is doing now, and raises 503 otherwise.
C27_HealthStatus ==
    boot.health.code # 0 =>
        /\ deployed = "monolith" => ThreeStatuses
        /\ deployed = "service" =>
              IF is_available
              THEN boot.health.code = 200 /\ boot.health.status = "healthy"
              ELSE boot.health.code = 503 /\ boot.health.status = "none"

\* The monolith answered degraded: the runtime answers the ping and the image
\* built at startup is no longer there.
C27_Witness ==
    /\ deployed = "monolith"
    /\ boot.health.status = "degraded"
    /\ boot.health.ping
    /\ boot.health.image = "missing"
    /\ boot.builds = 1

\* C28: download_ref_files takes the descriptors one at a time in list order:
\* while it is at descriptor i the staging directory holds exactly the files
\* of descriptors 1..i-1. When descriptor i fails, those files (and at most a
\* part of file i) are on disk as the failure reaches execute_code, no file
\* after i was written, the request ends in an error and no unit is created.
C28_SequentialAllOrNothing ==
    \A r \in Reqs :
        deployed = "service" =>
            /\ pc[r] = "download" => fs[r].files = 1..(loc[r].idx - 1)
            /\ (hist[r].dlFailed /\ pc[r] \in {"cleanup_unit", "cleanup_dir"}) =>
                  /\ 1..(loc[r].idx - 1) \subseteq fs[r].files
                  /\ fs[r].files \subseteq 1..loc[r].idx
                  /\ fs[r].exists
            /\ hist[r].dlFailed =>
                  /\ resp[r].kind = "error"
                  /\ ~hist[r].created /\ ~hist[r].createFailed
                  /\ ~OwnUnit(r)

\* The second of two descriptors failed: the first file is on disk, the second
\* is not, and the failure has reached execute_code.
C28_Witness ==
    \E r \in Reqs :
        /\ deployed = "service"
        /\ hist[r].dlFailed
        /\ pc[r] = "cleanup_unit"
        /\ Len(req[r].ref_files) = 2
        /\ loc[r].idx = 2
        /\ fs[r].files = {1}

\* The monolith's part of C30: whatever raises in SandboxExecutor.execute_code
\* after staging (unit creation, copy-in, the wait, reading the log) ends in a
\* result with the sentinel exit code and success false, never in an error.
MonolithSentinel ==
    \A r \in Reqs :
        (deployed = "monolith" /\ Done(r)
         /\ (hist[r].createFailed \/ hist[r].wait = "timeout" \/ hist[r].logsFailed))
            => /\ resp[r].kind = "result"
               /\ resp[r].exit_code = SentinelExit
               /\ ~resp[r].success

\* C30: a request whose wait ended without an exit status answers with a result
\* that carries the sentinel exit code -1 and success false; and in the monolith
\* every exception raised after staging ends in such a result.
C30_SentinelOnMissingStatus ==
    /\ \A r \in Reqs :
        (Done(r) /\ hist[r].wait = "timeout")
            => /\ resp[r].kind = "result"
               /\ resp[r].exit_code = SentinelExit
               /\ ~resp[r].success
    /\ MonolithSentinel

\* ------------------------------------------ staging names and the copy-in
\* C31 (as stated): once the copy-in has been made for a request with reference
\* files, the tar it built holds every file of the staging directory, those in
\* its subdirectories too.
C31_ArchiveHasEveryStagedFile ==
    \A r \in Reqs :
        pc[r] = "wait" /\ req[r].ref_files # << >> => loc[r].tar = fs[r].files

\* C32 (as stated): the directory the archive is put into and the directory
\* read back are the request's work_dir, the path the staging directory is
\* mounted on.
C32_CopyAndReadBackAtWorkDir ==
    \A r \in Reqs :
        /\ loc[r].copiedTo # << >> => loc[r].copiedTo = req[r].work_dir
        /\ loc[r].readFrom # << >> => loc[r].readFrom = req[r].work_dir

\* What follows the last slash of a string.
RECURSIVE LastSegment(_)
LastSegment(s) ==
    IF \E i \in 1..Len(s) : s[i] = "/" THEN LastSegment(Tail(s)) ELSE s

\* The name the descriptor is said to be staged under: its filename when present
\* and not empty, else the last segment of the URL, else a fresh file_<random>.
StatedName(d) ==
    IF ~d.filename.isNone /\ d.filename.v # << >> THEN d.filename.v
    ELSE IF LastSegment(d.url) # << >> THEN LastSegment(d.url)
    ELSE RandomName

\* C33 (as stated): every file in a staging directory is there under its
\* descriptor's filename, or the last segment of its URL, or, the URL ending in
\* a slash, a fresh file_<random>.
C33_StagedNameAsStated ==
    \A r \in Reqs : \A f \in fs[r].files :
        f >= 1 => JoinPath(RelPath(f)) = StatedName(RefFile(f))

\* C34 (as stated): no request has written a file outside its staging directory.
C34_StagingConfined ==
    \A r \in Reqs : hist[r].escaped = {}

\* C35: a request whose copy-in failed goes on to the wait step, and when the
\* wait has returned an exit status and the log has been read its response is a
\* result that carries that status, successful exactly when the status is 0.
C35_CopyFailureSwallowed ==
    \A r \in Reqs :
        loc[r].copyFailed =>
            /\ pc[r] = "wait" \/ hist[r].wait # "none"
            /\ resp[r].kind = "error" => hist[r].wait = "timeout" \/ hist[r].logsFailed
            /\ resp[r].kind = "result"
                => /\ resp[r].exit_code = hist[r].status
                   /\ resp[r].success = (hist[r].status = 0)

\* C35's case: the copy-in of a request whose volume is not mounted on /data
\* failed before the archive was put, the unit ran without the files and
\* exited 0, and the response is a successful result.
C35_Witness ==
    \E r \in Reqs :
        /\ loc[r].copyFailed
        /\ req[r].work_dir # << "data" >>
        /\ units[loc[r].name].data = {}
        /\ resp[r].kind = "result" /\ resp[r].success

\* ------------------------------------------- the process from start to serving
\* The connection is tried, the image looked up, and the process then serves
\* execute requests and health checks.
LifeNext == StartupNext \/ FairNext

LifeSpec == StartupInit /\ [][LifeNext]_vars

\* An execute request of the service is taken up while no client is held.
TakenUpUnavailable(r) ==
    deployed = "service" /\ boot.phase = "up" /\ ~client /\ pc[r] = "idle" /\ pc'[r] # "idle"

\* Answered 503 at once: nothing is tried, created or recorded.
Answered503(r) ==
    /\ resp'[r] = HttpError(503) /\ pc'[r] = "done"
    /\ boot' = boot /\ client' = client
    /\ fs' = fs /\ units' = units /\ hist' = hist

\* Once the process serves, the client is held exactly if an attempt succeeded,
\* and neither the client nor the count of attempts changes again.
DecidedOnce ==
    boot.phase = "up" =>
        /\ client <=> boot.succeeded
        /\ client' = client /\ boot'.attempts = boot.attempts /\ boot'.phase = "up"

\* C36, as stated: availability is decided once, and without a client every
\* execute request is answered 503 with nothing tried or created.
C36_Original ==
    [][DecidedOnce /\ \A r \in Reqs : TakenUpUnavailable(r) => Answered503(r)]_vars

\* C36: availability is decided once, at construction; without a client every
\* execute request that passes the router's validation is answered 503, with
\* no new connection attempt and no staging directory; with a client,
\* is_available() stays true.
C36_AvailabilityDecidedOnce ==
    [][DecidedOnce /\ \A r \in Reqs :
            TakenUpUnavailable(r) /\ ~RouterRejects(req'[r]) => Answered503(r)]_vars

\* C36's case: every one of the configured attempts failed, and a request made
\* afterwards has been answered 503 with the count of attempts as it was.
C36_Witness ==
    \E r \in Reqs :
        /\ deployed = "service" /\ boot.phase = "up"
        /\ boot.max_retries = DOCKER_CLIENT_MAX_RETRIES
        /\ boot.failures = boot.max_retries /\ boot.attempts = boot.max_retries
        /\ ~is_available
        /\ Done(r) /\ resp[r] = HttpError(503)
        /\ ~fs[r].exists /\ ~hist[r].dir

\* The steps of execute_code from the creation of the unit to the end of cleanup.
FromCreation == {"create", "copyin", "wait", "extract", "logs", "cleanup_unit", "cleanup_dir"}

\* A request of the service that is in execute_code without the event loop is
\* in the download; one between creation and the end of cleanup has the loop.
YieldsOnlyInDownload ==
    \A r \in Reqs :
        /\ InFlight(r) /\ loop # r => pc[r] = "download"
        /\ pc[r] \in FromCreation => loop = r

\* The unit was left behind by a request that has ended and whose removal raised.
LeftBehind(n) == Done(units[n].owner) /\ hist[units[n].owner].rmUnitFailed

\* C37, as stated: a request yields only in the download, runs from creation to
\* the end of cleanup without interleaving, and at most one unit exists.
C37_Original ==
    deployed = "service" =>
        /\ YieldsOnlyInDownload
        /\ Cardinality({n \in Names : units[n].exists}) <= 1

\* C37: a request of the service yields only in the download and runs from
\* creation to the end of cleanup without interleaving, so at most one unit
\* exists at any time besides those a failed removal has left behind.
C37_OneUnitAtATime ==
    deployed = "service" =>
        /\ YieldsOnlyInDownload
        /\ Cardinality({n \in Names : units[n].exists /\ ~LeftBehind(n)}) <= 1

\* C37's case: one request waits for its unit while another, which arrived
\* after it had yielded, is still in its download.
C37_Witness ==
    \E r, s \in Reqs :
        /\ deployed = "service"
        /\ pc[r] = "wait" /\ loop = r /\ units[loc[r].name].exists
        /\ pc[s] = "download" /\ hist[s].dir
        /\ Cardinality({n \in Names : units[n].exists}) = 1

\* Creation failed for request r with the unit registered under its name and
\* no handle returned.
RegisteredUnstarted(r) == hist[r].created /\ hist[r].createFailed

\* C38, as stated: when creation failed with the unit already registered, the
\* unit is gone once SandboxService.execute_code has ended.
C38_Original ==
    \A r \in Reqs :
        deployed = "service" /\ Done(r) /\ RegisteredUnstarted(r) => ~OwnUnit(r)

\* C38: when creation failed with the unit already registered under the
\* request's name, the cleanup, which looks the unit up by name, has removed it
\* once SandboxService.execute_code has ended, unless the lookup or the removal
\* itself raised.
C38_RemovedByName ==
    \A r \in Reqs :
        deployed = "service" /\ Done(r) /\ RegisteredUnstarted(r)
            => ~OwnUnit(r) \/ hist[r].rmUnitFailed

\* C38's case: creation failed with the unit registered, the request ended with
\* the 500, and the unit is gone though no handle was ever bound.
C38_Witness ==
    \E r \in Reqs :
        /\ deployed = "service" /\ Done(r) /\ RegisteredUnstarted(r)
        /\ resp[r] = HttpError(500)
        /\ ~OwnUnit(r) /\ ~hist[r].rmUnitFailed /\ hist[r].cleanups = 1

\* Every regular file of the unit's /data with an image suffix is among imgs,
\* under its basename and with its size.
EveryImageIn(n, imgs) ==
    \A m \in ArchiveOf(n) :
        m.isfile /\ HasImageSuffix(m.name)
            => \E img \in imgs : HasBasename(m, img.filename) /\ img.size = Len(m.bytes)

\* C39: when the extraction has read the archive, the images it collected, and
\* the images of the result returned after it, hold every regular file with an
\* image suffix that is in the unit's /data, staged files that the code did
\* not write among them.
C39_EveryImageReturned ==
    \A r \in Reqs :
        deployed = "service" /\ hist[r].extract = "read" =>
            /\ pc[r] = "logs" => EveryImageIn(loc[r].name, loc[r].generated_images)
            /\ pc[r] = "cleanup_unit" /\ resp[r].kind = "result"
                    => EveryImageIn(loc[r].name, resp[r].generated_images)

\* C39's case: a file was staged in a subdirectory under an image name, the
\* code wrote nothing, and the result carries the staged file.
C39_Witness ==
    \E r \in Reqs :
        /\ deployed = "service" /\ pc[r] = "cleanup_unit" /\ resp[r].kind = "result"
        /\ req[r].work_dir = << "data" >>
        /\ 11 \in fs[r].files
        /\ Wrote(hist[r].flushed) = {}
        /\ \E img \in resp[r].generated_images :
                img.filename = << "g", ".", "p", "n", "g" >> /\ img.size = Len(FileBytes(11))

\* ------------------------------------------------------------- src/main.py
\* The kernel-based variant: execute_code runs the code in a Jupyter kernel
\* started for the request, in a temporary directory. The kernel of a request
\* is held in units under the name KernelOf(r), the temporary directory in
\* fs[r], file_urls in req[r].ref_files. Every step ends in an await, so the
\* requests interleave at every step and none holds the loop.
KernelOf(r) == IF r = "r1" THEN "n1" ELSE "n2"

\* ExecuteRequest(code, file_urls)
KernelRequest ==
    {[NullRequest EXCEPT !.code = c, !.ref_files = l] : c \in Codes \ {<< >>}, l \in RefLists}

\* km after start_kernel: the kernel process of request r
Kernel(r) == [NoUnit EXCEPT !.exists = TRUE, !.owner = r, !.running = TRUE]

\* How the message loop ends: the idle status arrives, wait_for expires after
\* 30 s, asyncio.timeout(60) expires, or client(), start_channels, execute or
\* get_iopub_msg raises something else.
RunOutcomes == {"idle", "msg_timeout", "total_timeout", "error"}

\* output_files[filename] = encoded_content
OutputFile(f) == [filename |-> FileName(f), content |-> B64Encode(FileBytes(f))]

\* return {"result": output, "files": output_files}
KernelResult(out, files) ==
    [NoResp EXCEPT !.kind = "result", !.status = 200, !.output = out, !.generated_images = files]

KernelInit ==
    /\ deployed = "kernel"
    /\ client = FALSE
    /\ boot = [Booting(0) EXCEPT !.phase = "up"]
    /\ loop = NoReq
    /\ req = [r \in Reqs |-> NullRequest]
    /\ pc = [r \in Reqs |-> "idle"]
    /\ loc = [r \in Reqs |-> InitLoc]
    /\ resp = [r \in Reqs |-> NoResp]
    /\ units = [n \in Names |-> NoUnit]
    /\ fs = [r \in Reqs |-> NoDir]
    /\ hist = [r \in Reqs |-> InitHist]

\* temp_dir = tempfile.mkdtemp(), then the try block is entered
KernelEnter(r) ==
    /\ deployed = "kernel"
    /\ pc[r] = "idle"
    /\ r = "r1" \/ pc["r1"] # "idle"
    /\ \E q \in KernelRequest :
        /\ req' = [req EXCEPT ![r] = q]
        /\ pc' = [pc EXCEPT ![r] = IF q.ref_files # << >> THEN "download" ELSE "start"]
    /\ loc' = [loc EXCEPT ![r].hwd = TRUE]
    /\ fs' = [fs EXCEPT ![r] = [exists |-> TRUE, files |-> {}]]
    /\ hist' = [hist EXCEPT ![r].dir = TRUE]
    /\ UNCHANGED << boot, deployed, client, loop, resp, units >>

\* tempfile.mkdtemp raises, before the try block: nothing was created
KernelMkdtempFails(r) ==
    /\ deployed = "kernel"
    /\ pc[r] = "idle"
    /\ r = "r1" \/ pc["r1"] # "idle"
    /\ \E q \in KernelRequest : req' = [req EXCEPT ![r] = q]
    /\ resp' = [resp EXCEPT ![r] = HttpError(500)]
    /\ pc' = [pc EXCEPT ![r] = "done"]
    /\ UNCHANGED << boot, deployed, client, loop, loc, units, fs, hist >>

\* asyncio.gather(*download_tasks): every download_file wrote its file and
\* returned its name
KernelDownloadOk(r) ==
    /\ deployed = "kernel"
    /\ pc[r] = "download"
    /\ fs' = [fs EXCEPT ![r].files = {req[r].ref_files[i] : i \in 1..Len(req[r].ref_files)}]
    /\ pc' = [pc EXCEPT ![r] = "start"]
    /\ UNCHANGED << boot, deployed, client, loop, req, loc, resp, units, hist >>

\* A download_file returned "Failed to download ..." (httpx.RequestError):
\* HTTPException(400); or raise_for_status raised out of gather: 500. The other
\* downloads may have written their files. The outer finally follows.
KernelDownloadFails(r) ==
    /\ deployed = "kernel"
    /\ pc[r] = "download"
    /\ \E i \in 1..Len(req[r].ref_files) :
        fs' = [fs EXCEPT ![r].files = {req[r].ref_files[j] : j \in (1..Len(req[r].ref_files)) \ {i}}]
    /\ \E s \in {400, 500} : resp' = [resp EXCEPT ![r] = HttpError(s)]
    /\ hist' = [hist EXCEPT ![r].dlFailed = TRUE]
    /\ pc' = [pc EXCEPT ![r] = "cleanup_dir"]
    /\ UNCHANGED << boot, deployed, client, loop, req, loc, units >>

\* km = AsyncKernelManager(...); await km.start_kernel(); the inner try is entered
StartKernel(r) ==
    /\ deployed = "kernel"
    /\ pc[r] = "start"
    /\ units' = [units EXCEPT ![KernelOf(r)] = Kernel(r)]
    /\ loc' = [loc EXCEPT ![r].name = KernelOf(r), ![r].handle = TRUE]
    /\ hist' = [hist EXCEPT ![r].created = TRUE]
    /\ pc' = [pc EXCEPT ![r] = "run"]
    /\ UNCHANGED << boot, deployed, client, loop, req, resp, fs >>

\* start_kernel raises: no kernel; the outer finally follows
StartKernelFails(r) ==
    /\ deployed = "kernel"
    /\ pc[r] = "start"
    /\ resp' = [resp EXCEPT ![r] = HttpError(500)]
    /\ hist' = [hist EXCEPT ![r].createFailed = TRUE]
    /\ pc' = [pc EXCEPT ![r] = "cleanup_dir"]
    /\ UNCHANGED << boot, deployed, client, loop, req, loc, units, fs >>

\* Variant of AfterRun in which the expiry of the total timeout goes past the
\* shutdown.
AfterRun_TimeoutSkipsShutdown(outcome) == IF outcome = "total_timeout" THEN "collect" ELSE "shutdown"

\* finally: await km.shutdown_kernel(now=True), however the inner try is left
AfterRun(outcome) == "shutdown"

\* The inner try: the code is sent and the messages are read until the loop
\* ends. The code has printed b and written what it writes into temp_dir.
KernelRun(r) ==
    /\ deployed = "kernel"
    /\ pc[r] = "run"
    /\ \E outcome \in RunOutcomes, b \in LogBytes :
        /\ fs' = [fs EXCEPT ![r].files = @ \cup Wrote(b)]
        /\ hist' = [hist EXCEPT ![r].wait = outcome, ![r].flushed = b]
        /\ resp' = IF outcome = "error" THEN [resp EXCEPT ![r] = HttpError(500)] ELSE resp
        /\ pc' = [pc EXCEPT ![r] = AfterRun(outcome)]
    /\ UNCHANGED << boot, deployed, client, loop, req, loc, units >>

\* await km.shutdown_kernel(now=True): the kernel is gone; an exception of the
\* inner try goes on to the outer finally, anything else to the files
ShutdownKernel(r) ==
    /\ deployed = "kernel"
    /\ pc[r] = "shutdown"
    /\ units' = [units EXCEPT ![KernelOf(r)] = NoUnit]
    /\ hist' = [hist EXCEPT ![r].cleanups = @ + 1]
    /\ pc' = [pc EXCEPT ![r] = IF hist[r].wait = "error" THEN "cleanup_dir" ELSE "collect"]
    /\ UNCHANGED << boot, deployed, client, loop, req, loc, resp, fs >>

\* shutdown_kernel raises: nothing catches it, the outer finally follows
ShutdownKernelFails(r) ==
    /\ deployed = "kernel"
    /\ pc[r] = "shutdown"
    /\ MayFail
    /\ hist' = [hist EXCEPT ![r].cleanups = @ + 1, ![r].rmUnitFailed = TRUE]
    /\ resp' = [resp EXCEPT ![r] = HttpError(500)]
    /\ pc' = [pc EXCEPT ![r] = "cleanup_dir"]
    /\ UNCHANGED << boot, deployed, client, loop, req, loc, units, fs >>

\* output: what the code printed, and the message appended when a timeout
\* ended the loop
Output(flushed, outcome) ==
    flushed \o (IF outcome = "msg_timeout" THEN << "Timeout waiting for kernel message." >>
                ELSE IF outcome = "total_timeout" THEN << "Total execution time exceeded 60s." >>
                ELSE << >>)

\* files_before: the directory after the downloads
FilesBefore(r) == {req[r].ref_files[i] : i \in 1..Len(req[r].ref_files)}

\* files_after - files_before: the files written since the downloads, encoded
CollectFiles(r) ==
    /\ deployed = "kernel"
    /\ pc[r] = "collect"
    /\ resp' = [resp EXCEPT ![r] =
                    KernelResult(Output(hist[r].flushed, hist[r].wait),
                                 {OutputFile(f) : f \in fs[r].files \ FilesBefore(r)})]
    /\ pc' = [pc EXCEPT ![r] = "cleanup_dir"]
    /\ UNCHANGED << boot, deployed, client, loop, req, loc, units, fs, hist >>

\* finally: shutil.rmtree(temp_dir); then execute_code returns or raises what
\* it had decided
Rmtree(r) ==
    /\ deployed = "kernel"
    /\ pc[r] = "cleanup_dir"
    /\ fs' = [fs EXCEPT ![r] = NoDir]
    /\ pc' = [pc EXCEPT ![r] = "done"]
    /\ loc' = [loc EXCEPT ![r] = [InitLoc EXCEPT !.name = loc[r].name]]
    /\ UNCHANGED << boot, deployed, client, loop, req, resp, units, hist >>

\* shutil.rmtree raises: nothing catches it, and it is what the request raises
RmtreeFails(r) ==
    /\ deployed = "kernel"
    /\ pc[r] = "cleanup_dir"
    /\ MayFail
    /\ hist' = [hist EXCEPT ![r].rmDirFailed = TRUE]
    /\ resp' = [resp EXCEPT ![r] = HttpError(500)]
    /\ pc' = [pc EXCEPT ![r] = "done"]
    /\ loc' = [loc EXCEPT ![r] = [InitLoc EXCEPT !.name = loc[r].name]]
    /\ UNCHANGED << boot, deployed, client, loop, req, units, fs >>

KernelNext ==
    \E r \in Reqs :
        \/ KernelEnter(r) \/ KernelMkdtempFails(r)
        \/ KernelDownloadOk(r) \/ KernelDownloadFails(r)
        \/ StartKernel(r) \/ StartKernelFails(r)
        \/ KernelRun(r)
        \/ ShutdownKernel(r) \/ ShutdownKernelFails(r)
        \/ CollectFiles(r)
        \/ Rmtree(r) \/ RmtreeFails(r)

KernelSpec == KernelInit /\ [][KernelNext]_vars

\* A step of request r that leaves the message loop, calls shutdown_kernel, or
\* calls rmtree.
LeavesRun(r) == pc[r] = "run" /\ pc'[r] # "run"
ShutdownStep(r) == pc[r] = "shutdown" /\ pc'[r] # "shutdown"
RmtreeStep(r) == pc[r] = "cleanup_dir" /\ pc'[r] # "cleanup_dir"

\* The request ends by the rmtree step alone once its directory was made; with
\* a kernel started, shutdown_kernel has been called once by then, and every
\* way out of the message loop leads to that call.
ShutdownThenRmtree(r) ==
    /\ LeavesRun(r) => pc'[r] = "shutdown" /\ units'[KernelOf(r)].exists
    /\ ShutdownStep(r) => hist'[r].cleanups = 1 /\ pc'[r] \in {"collect", "cleanup_dir"}
    /\ RmtreeStep(r) => pc'[r] = "done" /\ (hist[r].created => hist[r].cleanups = 1)
    /\ pc'[r] = "done" /\ pc[r] # "done" /\ hist'[r].dir => RmtreeStep(r)

\* C40, as stated: once the kernel is started it is shut down on every exit
\* path, and the temporary directory is removed on every exit path, after the
\* shutdown.
C40_Original ==
    [][\A r \in Reqs :
        /\ ShutdownThenRmtree(r)
        /\ ShutdownStep(r) => ~units'[KernelOf(r)].exists
        /\ RmtreeStep(r) => ~fs'[r].exists]_vars

\* C40: once the kernel is started, shutdown_kernel is called on every exit
\* path (idle, per-message timeout, total timeout, exception) and rmtree is
\* called on every exit path, after it; the kernel is gone and the directory
\* removed unless the call itself raised.
C40_ShutdownThenRemoval ==
    [][\A r \in Reqs :
        /\ ShutdownThenRmtree(r)
        /\ ShutdownStep(r) => ~units'[KernelOf(r)].exists \/ hist'[r].rmUnitFailed
        /\ RmtreeStep(r) => ~fs'[r].exists \/ hist'[r].rmDirFailed]_vars

\* C40's case: the total timeout expired with the kernel running; the request
\* has ended with its result, the kernel shut down and the directory removed.
C40_Witness ==
    \E r \in Reqs :
        /\ deployed = "kernel" /\ Done(r)
        /\ hist[r].wait = "total_timeout" /\ hist[r].cleanups = 1
        /\ resp[r].kind = "result"
        /\ ~units[KernelOf(r)].exists /\ ~fs[r].exists
====
